---- MODULE Spec2Model ----
(***************************************************************************)
(* Model of the Microsoft Purview Utility console (React/TypeScript):      *)
(*   - the Selection Set kept by SelectedAssetsProvider and persisted in   *)
(*     the localStorage slot 'selectedAssets';                             *)
(*   - the Azure Storage hierarchy of BrowseByAssetType                    *)
(*     (buildStorageHierarchy / renderStorageNode);                        *)
(*   - the column-classification, tag, contact and lineage handlers of the *)
(*     Curate view.                                                        *)
(* Each part has its own specification over the same variables; the        *)
(* variables a specification does not use keep their initial value.        *)
(***************************************************************************)
EXTENDS Integers, Sequences, FiniteSets, TLC

VARIABLES
    selectedAssets,   \* SelectedAssetsProvider state: ordered list of SelectedAsset objects
                      \* (while no provider is mounted: the list the last one held,
                      \* which nothing reads)
    slot,             \* localStorage['selectedAssets']: Absent or the stored JSON text
    mounted,          \* TRUE while a SelectedAssetsProvider is mounted
    lastOp,           \* history: the last operation and its argument
    filteredAssets,   \* BrowseByAssetType: the normalized, filtered asset list
    schemaData,       \* Curate: column guid -> existing_classifications, as last fetched
    columnClassifications,  \* Curate: column guid -> classifications to apply
    showSchemaView,   \* Curate: the schema panel (column selects, Apply) is shown
    autoClassificationSuggestions,  \* Curate: column guid -> suggested classifications
    edited,           \* history: column guid -> the value the user chose in this session
    suggested,        \* history: column guid -> the suggestion ingested in this session
    applying,         \* the classify-columns request in flight, if any
    isSubmitting,     \* Curate: a write handler is running
    existingTags,     \* Curate: the tags of the selection, as last fetched
    tagsFetching,     \* a get-tags request is in flight
    batch,            \* handleRemoveAllTags: the running loop (its closure and position)
    requests,         \* history: the remove-tags requests of the current or last loop
    toast,            \* the last toast shown by a tag handler
    inputs,           \* Curate: the form inputs (addTagInput, removeTagInput,
                      \* selectedClassifications, selectedOwner, selectedExpert)
    write,            \* the write request of a single-request handler in flight, if any
    loading,          \* the facets whose get-contacts / get-classifications is in flight
    existingOwners,   \* Curate: the owners of the selection, as last fetched
    existingExperts,  \* Curate: the experts of the selection, as last fetched
    existingClassifications,  \* Curate: the classifications of the selection, as last fetched
    catalog,          \* the catalog behind the back end: per entity its tags and owner
    catalogWrites,    \* history: the per-entity writes the back end made for the last request
    recentAssets,     \* localStorage['recentAssets']: Absent or the stored JSON text
    recentAssetIds,   \* Dashboard page: the recently clicked ids it has loaded
    clicks,           \* history: the number of asset clicks made so far
    activeTab,        \* Curate: the tab whose content is rendered
    createdLineages,  \* Curate: the lineages created in this session, newest first
    selectedLineageIndices,  \* Curate: the indices (from 0) of the ticked created lineages
    isCreatingLineage,  \* Curate: a lineage/create request is in flight
    deleting,         \* the handleDeleteSelectedLineages call in flight, if any
    processes         \* history: the number of processes the back end has created

selectionVars == <<selectedAssets, slot, mounted>>

columnVars == <<schemaData, columnClassifications, showSchemaView,
                autoClassificationSuggestions, edited, suggested, applying>>

tagVars == <<existingTags, tagsFetching, batch, requests, toast>>

formVars == <<inputs, write, loading, existingOwners, existingExperts,
              existingClassifications>>

catalogVars == <<catalog, catalogWrites>>

curateVars == <<columnVars, isSubmitting, tagVars, formVars, catalogVars>>

lineageVars == <<createdLineages, selectedLineageIndices, isCreatingLineage,
                 deleting, processes>>

pageVars == <<recentAssets, recentAssetIds, clicks, activeTab, lineageVars>>

vars == <<selectionVars, lastOp, filteredAssets, curateVars, pageVars>>

(***************************************************************************)
(* Bounds                                                                  *)
(***************************************************************************)
NumIds == 3

MaxStored == 2

\* asset GUIDs (opaque strings)
Guid == <<"g1", "g2", "g3", "g4", "g5", "g6", "g7", "g8">>

Ids == {Guid[i] : i \in 1..NumIds}

\* Strings that the program takes apart (paths) are sequences of tokens;
\* undefined is a value that is none of them
Undefined == <<"(undefined)">>
\* localStorage.getItem: null when the slot was never written, else its text
Absent == [present |-> FALSE]

Stored(text) == [present |-> TRUE, text |-> text]
NoOp == [op |-> "none"]

\* the lineage tab as the Curate view is constructed
NoLineages ==
    /\ createdLineages = <<>>
    /\ selectedLineageIndices = {}
    /\ isCreatingLineage = FALSE
    /\ deleting = [active |-> FALSE]
    /\ processes = 0

(***************************************************************************)
(* SelectedAsset objects.  A JavaScript object is a function from the keys *)
(* it has to their values; reading a key it does not have gives undefined. *)
(***************************************************************************)
Keys == {"id", "name", "type", "qualifiedName"}

\* qualifiedName?: string is the one key that may hold undefined
OptionalKeys == {"qualifiedName"}

\* the id of a record that came without one (ids are plain strings)
NoId == "(undefined)"

IsUndefined(o, k) ==
    \/ k \in OptionalKeys /\ o[k] = Undefined
    \/ k = "id" /\ o[k] = NoId

Prop(o, k) == IF k \in DOMAIN o THEN o[k] ELSE Undefined

\* the objects the views pass to addAsset: AssetCard and renderStorageNode
\* pass qualifiedName (the connection prop, which may be undefined), the
\* orphaned-assets checkbox passes none
AssetArgs ==
    {[id |-> i, name |-> "n", type |-> "table"] : i \in Ids}
    \cup {[id |-> i, name |-> "n", type |-> "table", qualifiedName |-> q] :
            i \in Ids, q \in {<<"q">>, Undefined}}

SameAsset(a, b) == \A k \in Keys : Prop(a, k) = Prop(b, k)

SameAssets(s, t) ==
    /\ Len(s) = Len(t)
    /\ \A i \in 1..Len(s) : SameAsset(s[i], t[i])

\* JSON.stringify of an array of objects: a key whose value is undefined is
\* left out of the text
JSONStringify(list) ==
    [i \in 1..Len(list) |->
        [k \in {kk \in DOMAIN list[i] : ~IsUndefined(list[i], kk)} |-> list[i][k]]]

\* JSON.parse of such a text: the objects with exactly the keys in the text
JSONParse(text) == [i \in 1..Len(text) |-> text[i]]

HasId(list, id) == \E i \in 1..Len(list) : list[i].id = id

RECURSIVE FilterOutId(_, _)
FilterOutId(list, id) ==
    IF list = <<>> THEN <<>>
    ELSE IF Head(list).id = id THEN FilterOutId(Tail(list), id)
         ELSE <<Head(list)>> \o FilterOutId(Tail(list), id)

\* useEffect([selectedAssets]): localStorage.setItem after every change
Persisted(list) == Stored(JSONStringify(list))

\* (a provider that always starts empty)
RestoredIgnoringSlot(stored) == <<>>

\* useState initializer: restore from the slot if present, else []
Restored(stored) == IF stored.present THEN JSONParse(stored.text) ELSE <<>>

\* Record<string, any[]>: a function from the keys present to their lists
EmptyRecord == [k \in {} |-> <<>>]

\* a catalog without entities
NoCatalog == [tags |-> EmptyRecord, owner |-> EmptyRecord, expert |-> EmptyRecord]

\* the form inputs as the Curate view is constructed
NoInputs ==
    [addTagInput |-> <<>>, removeTagInput |-> <<>>, selectedClassifications |-> <<>>,
     selectedOwner |-> "", selectedExpert |-> ""]

InitForm ==
    /\ inputs = NoInputs
    /\ write = [active |-> FALSE]
    /\ loading = {}
    /\ existingOwners = <<>>
    /\ existingExperts = <<>>
    /\ existingClassifications = <<>>

\* the Curate view as it is constructed (its useState initial values)
InitCurate ==
    /\ InitForm
    /\ catalog = NoCatalog
    /\ catalogWrites = <<>>
    /\ schemaData = EmptyRecord
    /\ columnClassifications = EmptyRecord
    /\ showSchemaView = FALSE
    /\ autoClassificationSuggestions = EmptyRecord
    /\ edited = EmptyRecord
    /\ suggested = EmptyRecord
    /\ applying = [active |-> FALSE]
    /\ isSubmitting = FALSE
    /\ existingTags = <<>>
    /\ tagsFetching = FALSE
    /\ batch = [status |-> "idle"]
    /\ requests = <<>>
    /\ toast = [kind |-> "none"]

(***************************************************************************)
(* Selection Set operations                                                *)
(***************************************************************************)
SelectedAssetsProvider ==
    /\ ~mounted
    /\ mounted' = TRUE
    /\ selectedAssets' = Restored(slot)
    /\ slot' = Persisted(selectedAssets')
    /\ lastOp' = [op |-> "mount"]
    /\ UNCHANGED <<filteredAssets>>
    /\ UNCHANGED <<curateVars, pageVars>>

unmount ==
    /\ mounted
    /\ mounted' = FALSE
    /\ lastOp' = [op |-> "unmount"]
    /\ UNCHANGED <<selectedAssets, slot, filteredAssets>>
    /\ UNCHANGED <<curateVars, pageVars>>

\* (addAsset without its duplicate check)
AddedToUnchecked(prev, asset) == Append(prev, asset)

AddedTo(prev, asset) ==
    IF HasId(prev, asset.id) THEN prev ELSE Append(prev, asset)

addAsset(asset) ==
    /\ mounted
    /\ selectedAssets' = AddedTo(selectedAssets, asset)
    /\ slot' = Persisted(selectedAssets')
    /\ lastOp' = [op |-> "addAsset", asset |-> asset]
    /\ UNCHANGED <<mounted, filteredAssets>>
    /\ UNCHANGED <<curateVars, pageVars>>

removeAsset(id) ==
    /\ mounted
    /\ selectedAssets' = FilterOutId(selectedAssets, id)
    /\ slot' = Persisted(selectedAssets')
    /\ lastOp' = [op |-> "removeAsset", id |-> id]
    /\ UNCHANGED <<mounted, filteredAssets>>
    /\ UNCHANGED <<curateVars, pageVars>>

clearAll ==
    /\ mounted
    /\ selectedAssets' = <<>>
    /\ slot' = Persisted(selectedAssets')
    /\ lastOp' = [op |-> "clearAll"]
    /\ UNCHANGED <<mounted, filteredAssets>>
    /\ UNCHANGED <<curateVars, pageVars>>

\* the lists a previous session can have left in the slot
RECURSIVE NoDupSeqs(_)
NoDupSeqs(n) ==
    IF n = 0 THEN {<<>>}
    ELSE LET shorter == NoDupSeqs(n - 1)
         IN shorter \cup
            UNION {{Append(s, a) : a \in {b \in AssetArgs : ~HasId(s, b.id)}} :
                     s \in {t \in shorter : Len(t) = n - 1}}

InitSelection ==
    /\ mounted = FALSE
    /\ \/ selectedAssets = <<>> /\ slot = Absent
       \/ \E s \in NoDupSeqs(MaxStored) :
             selectedAssets = s /\ slot = Persisted(s)
    /\ lastOp = NoOp
    /\ filteredAssets = <<>>
    /\ recentAssets = Absent
    /\ recentAssetIds = <<>>
    /\ clicks = 0
    /\ NoLineages
    /\ activeTab = "tags"
    /\ InitCurate

NextSelection ==
    \/ SelectedAssetsProvider
    \/ unmount
    \/ \E asset \in AssetArgs : addAsset(asset)
    \/ \E id \in Ids : removeAsset(id)
    \/ clearAll

SpecSelection == InitSelection /\ [][NextSelection]_vars

(***************************************************************************)
(* Selection Set properties                                                *)
(***************************************************************************)
NoDuplicateIds ==
    \A i, j \in 1..Len(selectedAssets) :
        selectedAssets[i].id = selectedAssets[j].id => i = j

\* C1: after any sequence of addAsset / removeAsset / clearAll no two entries
\* of the Selection Set share an id; addAsset with an id already present
\* leaves the list exactly as it was, and addAsset with a new id puts the
\* new entry at the end, behind the unchanged earlier entries.
C1_NoDuplicatesAddKeepsOrAppends ==
    /\ []NoDuplicateIds
    /\ [][lastOp'.op = "addAsset" =>
            IF \E i \in 1..Len(selectedAssets) :
                   selectedAssets[i].id = lastOp'.asset.id
            THEN selectedAssets' = selectedAssets
            ELSE /\ Len(selectedAssets') = Len(selectedAssets) + 1
                 /\ selectedAssets'[Len(selectedAssets')] = lastOp'.asset
                 /\ SubSeq(selectedAssets', 1, Len(selectedAssets)) = selectedAssets
         ]_vars

\* an id was added again, with a different snapshot, while it sat in first
\* place of a list of two or more: the first entry is still the old one
C1_Witness ==
    /\ mounted
    /\ lastOp.op = "addAsset"
    /\ Len(selectedAssets) >= 2
    /\ selectedAssets[1].id = lastOp.asset.id
    /\ ~SameAsset(selectedAssets[1], lastOp.asset)

\* C2: while a provider is mounted the slot 'selectedAssets' holds the
\* serialized in-memory list (it is rewritten after every add, remove and
\* clear); a provider started afterwards restores exactly the ordered list
\* the previous one held, and starts empty when the slot is absent.
C2_SlotCatchesUpAndRestores ==
    /\ [](mounted => slot.present /\ slot.text = JSONStringify(selectedAssets))
    /\ [][~mounted /\ mounted' =>
            /\ SameAssets(selectedAssets', selectedAssets)
            /\ ~slot.present => selectedAssets' = <<>>
         ]_vars

\* a restarted provider holds a restored list of two entries, one of which
\* was stored without its undefined qualifiedName
C2_Witness ==
    /\ mounted
    /\ lastOp.op = "mount"
    /\ Len(selectedAssets) = 2
    /\ \E i \in 1..2 : "qualifiedName" \notin DOMAIN selectedAssets[i]
    /\ \E i \in 1..2 : Prop(selectedAssets[i], "qualifiedName") = <<"q">>

(***************************************************************************)
(* Azure Storage hierarchy of BrowseByAssetType                            *)
(***************************************************************************)
NumEntities == 6

MaxAssets == 3

\* assetType.includes('File')
FileTypes == {"CSV File", "JSON File", "PARQUET File", "TXT File", "XML File", "Avro File"}

IncludesFile(assetType) == assetType \in FileTypes

\* type.includes('Azure Storage') || type.includes('Azure Blob')
IsStorageType(assetType) ==
    assetType \in {"Azure Storage Account", "Azure Blob Storage",
                   "Azure Blob Container", "Azure Blob"}

\* getAssetType: file types map to 'file', the rest to the entity type
GetAssetType(assetType) ==
    IF IncludesFile(assetType) \/ assetType = "Azure Blob" THEN "file" ELSE "table"

Normalized(id, assetType, connection) ==
    [id |-> id, name |-> "n", type |-> GetAssetType(assetType),
     assetType |-> assetType, connection |-> connection]

BlobDomain == <<".blob", ".core.windows.net">>
AccountDomain == <<".core.windows.net">>

\* the catalog the asset lists are drawn from: qualified names as token
\* sequences ("/" and the two domain suffixes are tokens of their own)
Catalog == <<
    Normalized(Guid[1], "Azure Storage Account", <<"a">> \o AccountDomain),
    Normalized(Guid[2], "Azure Blob Storage", <<"a">> \o BlobDomain),
    Normalized(Guid[3], "Azure Blob Container", <<"a">> \o BlobDomain \o <<"/", "c">>),
    Normalized(Guid[4], "CSV File", <<"a">> \o BlobDomain \o <<"/", "c", "/", "f">>),
    Normalized(Guid[5], "Azure Blob", <<"a">> \o BlobDomain \o <<"/", "c", "/", "g">>),
    Normalized(Guid[6], "Table", <<"db", "/", "t">>),
    Normalized(Guid[7], "Azure Storage Account", <<"b">> \o AccountDomain),
    Normalized(Guid[8], "Avro File", <<"b">> \o BlobDomain \o <<"/", "c", "/", "h">>) >>

Entities == {Catalog[i] : i \in 1..NumEntities}

RECURSIVE AssetLists(_)
AssetLists(n) ==
    IF n = 0 THEN {<<>>}
    ELSE LET shorter == AssetLists(n - 1)
         IN shorter \cup
            UNION {{Append(s, e) : e \in {x \in Entities : ~HasId(s, x.id)}} :
                     s \in {t \in shorter : Len(t) = n - 1}}

\* String.prototype.replace('.blob.core.windows.net', '.core.windows.net'):
\* the first occurrence only
RECURSIVE ReplaceBlobDomain(_)
ReplaceBlobDomain(path) ==
    IF Len(path) < 2 THEN path
    ELSE IF SubSeq(path, 1, 2) = BlobDomain
         THEN AccountDomain \o SubSeq(path, 3, Len(path))
         ELSE <<Head(path)>> \o ReplaceBlobDomain(Tail(path))

\* String.prototype.lastIndexOf('/'), 1-based; 0 when there is none (JS: -1)
LastIndexOfSlash(path) ==
    IF \E i \in 1..Len(path) : path[i] = "/"
    THEN CHOOSE i \in 1..Len(path) :
            path[i] = "/" /\ \A j \in (i + 1)..Len(path) : path[j] # "/"
    ELSE 0

\* (the path cut at its first '/')
CutAtFirstSlash(path) ==
    IF LastIndexOfSlash(path) = 0 THEN <<>>
    ELSE SubSeq(path, 1, (CHOOSE i \in 1..Len(path) :
                            path[i] = "/" /\ \A j \in 1..(i - 1) : path[j] # "/") - 1)

\* connection.substring(0, connection.lastIndexOf('/')); substring(0, -1) is ''
ParentPath(path) ==
    IF LastIndexOfSlash(path) = 0 THEN <<>>
    ELSE SubSeq(path, 1, LastIndexOfSlash(path) - 1)

Put(rec, key, value) ==
    [k \in DOMAIN rec \cup {key} |-> IF k = key THEN value ELSE rec[k]]

\* if (!rec[key]) rec[key] = []; rec[key].push(asset)
Push(rec, key, asset) ==
    Put(rec, key, (IF key \in DOMAIN rec THEN rec[key] ELSE <<>>) \o <<asset>>)

\* rec[key] || []
Lookup(rec, key) == IF key \in DOMAIN rec THEN rec[key] ELSE <<>>

RECURSIVE SelectByType(_, _)
SelectByType(list, assetType) ==
    IF list = <<>> THEN <<>>
    ELSE (IF Head(list).assetType = assetType THEN <<Head(list)>> ELSE <<>>)
         \o SelectByType(Tail(list), assetType)

\* assetsByType[type] || []
AssetsByType(list, assetType) == SelectByType(list, assetType)

\* Object.entries(assetsByType) keeps the order in which the types first occur
RECURSIVE TypesInOrder(_)
TypesInOrder(list) ==
    IF list = <<>> THEN <<>>
    ELSE LET rest == TypesInOrder(SubSeq(list, 1, Len(list) - 1))
             t == list[Len(list)].assetType
         IN IF \E i \in 1..Len(rest) : rest[i] = t THEN rest ELSE Append(rest, t)

NamedFileTypes == {"CSV File", "JSON File", "PARQUET File", "TXT File", "XML File"}

RECURSIVE OtherFileAssets(_, _)
OtherFileAssets(types, list) ==
    IF types = <<>> THEN <<>>
    ELSE (IF IncludesFile(Head(types)) /\ Head(types) \notin NamedFileTypes
          THEN AssetsByType(list, Head(types)) ELSE <<>>)
         \o OtherFileAssets(Tail(types), list)

\* (the flat list passed on in its input order)
InInputOrder(list) == list

\* allStorageAssets: the buckets of the storage kinds, accounts first
AllStorageAssets(list) ==
    AssetsByType(list, "Azure Storage Account")
    \o AssetsByType(list, "Azure Blob Storage")
    \o AssetsByType(list, "Azure Blob Container")
    \o AssetsByType(list, "Azure Blob")
    \o AssetsByType(list, "CSV File")
    \o AssetsByType(list, "JSON File")
    \o AssetsByType(list, "PARQUET File")
    \o AssetsByType(list, "TXT File")
    \o AssetsByType(list, "XML File")
    \o OtherFileAssets(TypesInOrder(list), list)

EmptyHierarchy ==
    [accounts |-> <<>>, accountChildren |-> EmptyRecord,
     blobStorageChildren |-> EmptyRecord, containerChildren |-> EmptyRecord]

\* one iteration of storageAssets.forEach
Organize(h, asset) ==
    IF asset.assetType = "Azure Storage Account" THEN
        [h EXCEPT !.accounts = Append(@, asset),
                  !.accountChildren = Put(@, asset.connection, <<>>)]
    ELSE IF asset.assetType = "Azure Blob Storage" THEN
        [h EXCEPT !.accountChildren = Push(@, ReplaceBlobDomain(asset.connection), asset),
                  !.blobStorageChildren = Put(@, asset.connection, <<>>)]
    ELSE IF asset.assetType = "Azure Blob Container" THEN
        [h EXCEPT !.blobStorageChildren = Push(@, ParentPath(asset.connection), asset),
                  !.containerChildren = Put(@, asset.connection, <<>>)]
    ELSE IF IncludesFile(asset.assetType) \/ asset.assetType = "Azure Blob" THEN
        [h EXCEPT !.containerChildren = Push(@, ParentPath(asset.connection), asset)]
    ELSE h

RECURSIVE BuildFrom(_, _)
BuildFrom(h, storageAssets) ==
    IF storageAssets = <<>> THEN h
    ELSE BuildFrom(Organize(h, Head(storageAssets)), Tail(storageAssets))

buildStorageHierarchy(storageAssets) == BuildFrom(EmptyHierarchy, storageAssets)

\* renderStorageNode's choice of the children of a child node
ChildChildren(child, childrenMap) ==
    IF child.assetType = "Azure Storage Account"
    THEN Lookup(childrenMap.accountChildren, child.connection)
    ELSE IF child.assetType = "Azure Blob Storage"
    THEN Lookup(childrenMap.blobStorageChildren, child.connection)
    ELSE IF child.assetType = "Azure Blob Container"
    THEN Lookup(childrenMap.containerChildren, child.connection)
    ELSE <<>>

Root == "(root)"

\* renderStorageNode with every node expanded: the node, then its children's
\* subtrees, as a list of [asset, parent, children]
RECURSIVE renderStorageNode(_, _, _, _)
RECURSIVE RenderChildren(_, _, _)
renderStorageNode(asset, children, parent, childrenMap) ==
    <<[asset |-> asset, parent |-> parent, children |-> children]>>
    \o RenderChildren(children, asset.id, childrenMap)

RenderChildren(children, parent, childrenMap) ==
    IF children = <<>> THEN <<>>
    ELSE renderStorageNode(Head(children), ChildChildren(Head(children), childrenMap),
                           parent, childrenMap)
         \o RenderChildren(Tail(children), parent, childrenMap)

RECURSIVE RenderAccounts(_, _)
RenderAccounts(accounts, h) ==
    IF accounts = <<>> THEN <<>>
    ELSE renderStorageNode(Head(accounts),
                           Lookup(h.accountChildren, Head(accounts).connection),
                           Root, h)
         \o RenderAccounts(Tail(accounts), h)

\* the nodes of the 'Azure Storage Hierarchy' card, which is rendered when
\* the bucket 'Azure Storage Account' exists
StorageForest(list) ==
    IF AssetsByType(list, "Azure Storage Account") = <<>> THEN <<>>
    ELSE LET h == buildStorageHierarchy(AllStorageAssets(list))
         IN RenderAccounts(h.accounts, h)

Forest == StorageForest(filteredAssets)

\* (a node that is always selectable)
AlwaysSelectable(children) == TRUE

\* const hasChildren = children && children.length > 0; isSelectable = !hasChildren
IsSelectable(children) == ~(Len(children) > 0)

\* renderStorageNode.handleSelect on a rendered node
handleSelect(node) ==
    /\ mounted
    /\ IF ~IsSelectable(node.children) THEN
           UNCHANGED <<selectedAssets, slot>>
       ELSE IF HasId(selectedAssets, node.asset.id) THEN
           /\ selectedAssets' = FilterOutId(selectedAssets, node.asset.id)
           /\ slot' = Persisted(selectedAssets')
       ELSE
           /\ selectedAssets' =
                AddedTo(selectedAssets,
                        [id |-> node.asset.id, name |-> node.asset.name,
                         type |-> node.asset.type,
                         qualifiedName |-> node.asset.connection])
           /\ slot' = Persisted(selectedAssets')
    /\ lastOp' = [op |-> "handleSelect", id |-> node.asset.id]
    /\ UNCHANGED <<mounted, filteredAssets>>
    /\ UNCHANGED <<curateVars, pageVars>>

\* usePurviewAssets delivers the catalog's assets (isLoading ends); the
\* search box is empty, so filteredAssets is the whole normalized list
assetsLoaded(list) ==
    /\ filteredAssets = <<>>
    /\ list # <<>>
    /\ filteredAssets' = list
    /\ lastOp' = [op |-> "assetsLoaded"]
    /\ UNCHANGED <<selectedAssets, slot, mounted>>
    /\ UNCHANGED <<curateVars, pageVars>>

InitHierarchy ==
    /\ mounted = TRUE
    /\ selectedAssets = <<>>
    /\ slot = Persisted(<<>>)
    /\ lastOp = NoOp
    /\ filteredAssets = <<>>
    /\ recentAssets = Absent
    /\ recentAssetIds = <<>>
    /\ clicks = 0
    /\ NoLineages
    /\ activeTab = "tags"
    /\ InitCurate

NextHierarchy ==
    \/ \E list \in AssetLists(MaxAssets) : assetsLoaded(list)
    \/ \E i \in 1..Len(Forest) : handleSelect(Forest[i])

SpecHierarchy == InitHierarchy /\ [][NextHierarchy]_vars

(***************************************************************************)
(* Hierarchy properties                                                    *)
(***************************************************************************)
StorageInput == AllStorageAssets(filteredAssets)

InputPaths == {filteredAssets[i].connection : i \in 1..Len(filteredAssets)}

NodesOf(id) == {i \in 1..Len(Forest) : Forest[i].asset.id = id}

HasChildNode(id) == \E i \in 1..Len(Forest) : Forest[i].parent = id

\* C3: the select action on a node of the storage hierarchy that has at
\* least one child node changes neither the Selection Set nor its slot.
C3_SelectOnParentIsNoOp ==
    [][lastOp'.op = "handleSelect" /\ HasChildNode(lastOp'.id) =>
          selectedAssets' = selectedAssets /\ slot' = slot]_vars

\* the select action was invoked on a node with a child while another node
\* was selected
C3_Witness ==
    /\ lastOp.op = "handleSelect"
    /\ HasChildNode(lastOp.id)
    /\ Len(selectedAssets) >= 1
    /\ ~HasId(selectedAssets, lastOp.id)

\* C4: every entity of the storage-kind input list is in exactly one node
\* of the rendered forest.
C4_EveryEntityInExactlyOneNode ==
    \A i \in 1..Len(StorageInput) : Cardinality(NodesOf(StorageInput[i].id)) = 1

IsOrphan(asset) ==
    /\ \/ asset.assetType \in {"Azure Blob Storage", "Azure Blob Container", "Azure Blob"}
       \/ IncludesFile(asset.assetType)
    /\ LET parentPath == IF asset.assetType = "Azure Blob Storage"
                         THEN ReplaceBlobDomain(asset.connection)
                         ELSE ParentPath(asset.connection)
       IN parentPath \notin InputPaths

\* C5: a Blob Storage, Blob Container or File/Blob entity whose computed
\* parent path is the path of no input entity is a top-level node of the
\* forest.
C5_OrphanIsTopLevelNode ==
    \A i \in 1..Len(StorageInput) :
        IsOrphan(StorageInput[i]) =>
            \E n \in NodesOf(StorageInput[i].id) : Forest[n].parent = Root

\* C6: a Blob Storage entity with path X.blob.core.windows.net is a child
\* node of the Storage Account entity with path X.core.windows.net,
\* wherever the two stand in the input list.
C6_BlobStorageUnderItsAccount ==
    \A i, j \in 1..Len(filteredAssets) :
        LET account == filteredAssets[i]
            blob == filteredAssets[j]
        IN  /\ account.assetType = "Azure Storage Account"
            /\ blob.assetType = "Azure Blob Storage"
            /\ Len(blob.connection) >= 2
            /\ SubSeq(blob.connection, Len(blob.connection) - 1, Len(blob.connection))
                 = BlobDomain
            /\ account.connection =
                 SubSeq(blob.connection, 1, Len(blob.connection) - 2) \o AccountDomain
            => \E n \in NodesOf(blob.id) : Forest[n].parent = account.id

\* the Blob Storage entity stands before its account in the input list, and
\* a child of the Blob Storage entity has been selected
C6_Witness ==
    /\ \E i, j \in 1..Len(filteredAssets) :
          /\ j < i
          /\ filteredAssets[i].assetType = "Azure Storage Account"
          /\ filteredAssets[j].assetType = "Azure Blob Storage"
          /\ \E n \in NodesOf(filteredAssets[j].id) :
                Forest[n].parent = filteredAssets[i].id
    /\ Len(selectedAssets) >= 1

(***************************************************************************)
(* Curate view: column classifications                                     *)
(***************************************************************************)
\* the column guids of the selected assets' schemas
Columns == {"c1", "c2"}

\* the classification names offered by the column selects
Classifications == {"PII", "EMAIL"}

Failure == [ok |-> FALSE]

\* get-schema responses: the columns of the selected assets, each with its
\* existing_classifications
SchemaResponses ==
    {[ok |-> TRUE, schema |-> sch] : sch \in [Columns -> {<<>>, <<"PII">>}]}

\* auto-classify responses: per column the suggested classifications
\* (an empty list: none suggested)
SuggestionResponses ==
    {[ok |-> TRUE, suggestions |-> sg] :
        sg \in [Columns -> {<<>>} \cup {<<c>> : c \in Classifications}]}

\* the selection the Curate view works on
CurateSelection ==
    <<[id |-> Guid[1], name |-> "n", type |-> "table"],
      [id |-> Guid[2], name |-> "n", type |-> "table"]>>

\* getGuids
getGuids == [i \in 1..Len(selectedAssets) |-> selectedAssets[i].id]

\* the entries of a column map whose list is not empty
NonEmptyEntries(map) ==
    [c \in {k \in DOMAIN map : Len(map[k]) > 0} |-> map[c]]

\* fetchSchema's response handling: schemaData and the pre-populated
\* columnClassifications
fetchSchema(response) ==
    /\ Len(selectedAssets) > 0
    /\ ~isSubmitting
    /\ IF response.ok THEN
           /\ schemaData' = response.schema
           /\ columnClassifications' = NonEmptyEntries(response.schema)
           /\ showSchemaView' = TRUE
           /\ edited' = EmptyRecord
           /\ suggested' = EmptyRecord
           /\ UNCHANGED toast
       ELSE
           /\ toast' = [kind |-> "error", title |-> "Error Fetching Schema"]
           /\ UNCHANGED <<schemaData, columnClassifications, showSchemaView,
                          edited, suggested>>
    /\ UNCHANGED <<formVars, catalogVars, pageVars>>
    /\ UNCHANGED <<selectionVars, lastOp, filteredAssets, autoClassificationSuggestions,
                   applying, isSubmitting, existingTags, tagsFetching, batch,
                   requests>>

\* handleAutoClassify: the auto-classify response, the schema fetch it
\* awaits when columns have suggestions (total_columns and
\* total_classifications count the suggestions of the response), and the
\* replacement of columnClassifications by the suggestions
handleAutoClassify(response, schemaResponse) ==
    /\ Len(selectedAssets) > 0
    /\ ~isSubmitting
    /\ IF ~response.ok THEN
           UNCHANGED <<schemaData, columnClassifications, showSchemaView,
                       autoClassificationSuggestions, suggested>>
       ELSE
           /\ autoClassificationSuggestions' = response.suggestions
           /\ IF DOMAIN NonEmptyEntries(response.suggestions) # {} THEN
                  /\ schemaData' = IF schemaResponse.ok THEN schemaResponse.schema
                                   ELSE schemaData
                  /\ columnClassifications' = NonEmptyEntries(response.suggestions)
                  /\ showSchemaView' = TRUE
                  /\ suggested' = NonEmptyEntries(response.suggestions)
              ELSE
                  UNCHANGED <<schemaData, columnClassifications, showSchemaView,
                              suggested>>
    /\ UNCHANGED <<formVars, catalogVars, pageVars>>
    /\ UNCHANGED <<selectionVars, lastOp, filteredAssets, edited, applying, isSubmitting,
                   tagVars>>

\* the column Select's onValueChange
onValueChange(column, value) ==
    /\ showSchemaView
    /\ column \in DOMAIN schemaData
    /\ columnClassifications' =
          Put(columnClassifications, column, IF value # "" THEN <<value>> ELSE <<>>)
    /\ edited' = Put(edited, column, IF value # "" THEN <<value>> ELSE <<>>)
    /\ UNCHANGED <<formVars, catalogVars, pageVars>>
    /\ UNCHANGED <<selectionVars, lastOp, filteredAssets, schemaData, showSchemaView,
                   autoClassificationSuggestions, suggested, applying,
                   isSubmitting, tagVars>>

\* the schema panel's close button
closeSchemaView ==
    /\ showSchemaView
    /\ showSchemaView' = FALSE
    /\ UNCHANGED <<formVars, catalogVars, pageVars>>
    /\ UNCHANGED <<selectionVars, lastOp, filteredAssets, schemaData, columnClassifications,
                   autoClassificationSuggestions, edited, suggested, applying,
                   isSubmitting, tagVars>>

\* applyColumnClassifications up to its request
applyColumnClassifications ==
    /\ showSchemaView
    /\ DOMAIN schemaData # {}
    /\ ~isSubmitting
    /\ DOMAIN columnClassifications # {}
    /\ isSubmitting' = TRUE
    /\ applying' = [active |-> TRUE, body |-> columnClassifications]
    /\ UNCHANGED <<formVars, catalogVars, pageVars>>
    /\ UNCHANGED <<selectionVars, lastOp, filteredAssets, schemaData, columnClassifications,
                   showSchemaView, autoClassificationSuggestions, edited, suggested,
                   tagVars>>

\* applyColumnClassifications from the classify-columns response on
classifyColumnsResponse(ok) ==
    /\ applying.active
    /\ IF ok THEN
           /\ columnClassifications' = EmptyRecord
           /\ showSchemaView' = FALSE
           /\ edited' = EmptyRecord
           /\ suggested' = EmptyRecord
           /\ loading' = loading \cup {"classifications"}
       ELSE
           UNCHANGED <<columnClassifications, showSchemaView, edited, suggested,
                       loading>>
    /\ isSubmitting' = FALSE
    /\ applying' = [active |-> FALSE]
    /\ UNCHANGED <<inputs, write, existingOwners, existingExperts,
                   existingClassifications, catalogVars, pageVars>>
    /\ UNCHANGED <<selectionVars, lastOp, filteredAssets, schemaData,
                   autoClassificationSuggestions, tagVars>>

InitColumns ==
    /\ mounted = TRUE
    /\ selectedAssets = CurateSelection
    /\ slot = Persisted(selectedAssets)
    /\ lastOp = NoOp
    /\ filteredAssets = <<>>
    /\ recentAssets = Absent
    /\ recentAssetIds = <<>>
    /\ clicks = 0
    /\ NoLineages
    /\ activeTab = "classifications"
    /\ InitCurate

NextColumns ==
    \/ \E response \in SchemaResponses \cup {Failure} : fetchSchema(response)
    \/ \E response \in SuggestionResponses \cup {Failure},
          schemaResponse \in SchemaResponses \cup {Failure} :
             handleAutoClassify(response, schemaResponse)
    \/ \E column \in Columns, value \in Classifications \cup {""} :
          onValueChange(column, value)
    \/ closeSchemaView
    \/ applyColumnClassifications
    \/ \E ok \in BOOLEAN : classifyColumnsResponse(ok)

SpecColumns == InitColumns /\ [][NextColumns]_vars

(***************************************************************************)
(* Column classification properties                                        *)
(***************************************************************************)
\* the baseline of a column: its existing_classifications as fetched
Baseline(column) == Lookup(schemaData, column)

\* edited, else suggested, else baseline
Effective(column) ==
    IF column \in DOMAIN edited THEN edited[column]
    ELSE IF column \in DOMAIN suggested THEN suggested[column]
    ELSE Baseline(column)

\* C7: for every column key the value that an apply sends is the user's edit
\* of this session if there is one, otherwise the ingested suggestion if
\* there is one, and otherwise nothing is sent for the key.
C7_ApplySendsEditedElseSuggested ==
    [][~applying.active /\ applying'.active =>
          \A column \in Columns :
             /\ column \in DOMAIN applying'.body =>
                   applying'.body[column] = Effective(column)
             /\ column \notin DOMAIN edited \cup DOMAIN suggested =>
                   column \notin DOMAIN applying'.body
      ]_vars

\* C8: an apply sends nothing for a column whose value to apply equals the
\* baseline fetched by fetchSchema.
C8_NoWriteForBaselineValue ==
    applying.active =>
        \A column \in DOMAIN applying.body :
            applying.body[column] # Baseline(column)

\* C14: handleAutoClassify never changes the pending value of a column key
\* that the user has already edited in this session.
C14_AutoClassifyKeepsEditedKeys ==
    [][(\E response \in SuggestionResponses \cup {Failure},
           schemaResponse \in SchemaResponses \cup {Failure} :
              handleAutoClassify(response, schemaResponse)) =>
          \A column \in DOMAIN edited :
             /\ (column \in DOMAIN columnClassifications')
                  = (column \in DOMAIN columnClassifications)
             /\ Lookup(columnClassifications', column)
                  = Lookup(columnClassifications, column)
      ]_vars

(***************************************************************************)
(* Curate view: remove all tags                                            *)
(***************************************************************************)
NumTags == 3

TagName == <<"A", "B", "C", "D">>

Tags == {TagName[i] : i \in 1..NumTags}

\* the lists of distinct tags a get-tags response can carry
RECURSIVE TagLists(_)
TagLists(n) ==
    IF n = 0 THEN {<<>>}
    ELSE LET shorter == TagLists(n - 1)
         IN shorter \cup
            UNION {{Append(s, t) : t \in {x \in Tags : \A i \in 1..Len(s) : s[i] # x}} :
                     s \in {u \in shorter : Len(u) = n - 1}}

\* how a fetch ends: a success response, an error response (the promise
\* resolves all the same), or a network error (the promise rejects)
Outcomes == {"ok", "error_response", "network_error"}

\* the request body of one remove-tags call of the loop
RemoveTagsRequest(guids, tag) == [guids |-> guids, tag |-> tag, outcome |-> "pending"]

\* fetchExistingTags with setExistingTags(data.tags || []) outside the
\* success check
fetchExistingTagsStoring(response) ==
    /\ tagsFetching
    /\ tagsFetching' = FALSE
    /\ existingTags' = IF "tags" \in DOMAIN response THEN response.tags ELSE <<>>
    /\ UNCHANGED <<formVars, catalogVars, pageVars>>
    /\ UNCHANGED <<selectionVars, lastOp, filteredAssets, columnVars, isSubmitting,
                   batch, requests, toast>>

\* fetchExistingTags from its response on
fetchExistingTagsResponse(response) ==
    /\ tagsFetching
    /\ tagsFetching' = FALSE
    /\ existingTags' = IF response.ok THEN response.tags ELSE existingTags
    /\ UNCHANGED <<formVars, catalogVars, pageVars>>
    /\ UNCHANGED <<selectionVars, lastOp, filteredAssets, columnVars, isSubmitting,
                   batch, requests, toast>>

\* handleRemoveAllTags up to its first request (batch and requests follow
\* the latest invocation)
handleRemoveAllTags(confirmed) ==
    /\ ~isSubmitting
    /\ Len(selectedAssets) > 0
    /\ IF Len(existingTags) = 0 THEN
           /\ toast' = [kind |-> "error", title |-> "No Tags to Remove"]
           /\ batch' = [status |-> "idle"]
           /\ requests' = <<>>
           /\ UNCHANGED isSubmitting
       ELSE IF ~confirmed THEN
           /\ batch' = [status |-> "idle"]
           /\ requests' = <<>>
           /\ UNCHANGED <<isSubmitting, toast>>
       ELSE
           /\ isSubmitting' = TRUE
           /\ batch' = [status |-> "running", tags |-> existingTags,
                        guids |-> getGuids, next |-> 1]
           /\ requests' = <<RemoveTagsRequest(getGuids, existingTags[1])>>
           /\ UNCHANGED toast
    /\ UNCHANGED <<formVars, catalogVars, pageVars>>
    /\ UNCHANGED <<selectionVars, lastOp, filteredAssets, columnVars, existingTags,
                   tagsFetching>>

\* await fetch(...) in the loop: a rejected promise leaves the loop for the
\* catch block, anything else lets it go on (the response is not looked at)
LoopContinuesAfter(outcome) == outcome # "network_error"

\* handleRemoveAllTags from a remove-tags response on: the next request, or
\* the end of the loop with its toast and the refresh of the tags
removeTagsResponse(outcome) ==
    /\ batch.status = "running"
    /\ LET answered == [requests EXCEPT ![batch.next].outcome = outcome]
       IN IF ~LoopContinuesAfter(outcome) THEN
              /\ requests' = answered
              /\ batch' = [batch EXCEPT !.status = "done"]
              /\ toast' = [kind |-> "error", title |-> "Error Removing Tags"]
              /\ isSubmitting' = FALSE
              /\ UNCHANGED tagsFetching
          ELSE IF batch.next < Len(batch.tags) THEN
              /\ requests' = Append(answered,
                                    RemoveTagsRequest(batch.guids,
                                                      batch.tags[batch.next + 1]))
              /\ batch' = [batch EXCEPT !.next = @ + 1]
              /\ UNCHANGED <<toast, isSubmitting, tagsFetching>>
          ELSE
              /\ requests' = answered
              /\ batch' = [batch EXCEPT !.status = "done"]
              /\ toast' = [kind |-> "success", title |-> "All Tags Removed Successfully",
                           removed |-> Len(batch.tags), assets |-> Len(batch.guids)]
              /\ tagsFetching' = TRUE
              /\ isSubmitting' = FALSE
    /\ UNCHANGED <<formVars, catalogVars, pageVars>>
    /\ UNCHANGED <<selectionVars, lastOp, filteredAssets, columnVars, existingTags>>

\* the Curate view mounted on a selection: its effect has asked for the tags
InitTags ==
    /\ mounted = TRUE
    /\ selectedAssets = CurateSelection
    /\ slot = Persisted(selectedAssets)
    /\ lastOp = NoOp
    /\ filteredAssets = <<>>
    /\ schemaData = EmptyRecord
    /\ columnClassifications = EmptyRecord
    /\ showSchemaView = FALSE
    /\ autoClassificationSuggestions = EmptyRecord
    /\ edited = EmptyRecord
    /\ suggested = EmptyRecord
    /\ applying = [active |-> FALSE]
    /\ isSubmitting = FALSE
    /\ existingTags = <<>>
    /\ tagsFetching = TRUE
    /\ batch = [status |-> "idle"]
    /\ requests = <<>>
    /\ toast = [kind |-> "none"]
    /\ InitForm
    /\ catalog = NoCatalog
    /\ catalogWrites = <<>>
    /\ recentAssets = Absent
    /\ recentAssetIds = <<>>
    /\ clicks = 0
    /\ NoLineages
    /\ activeTab = "tags"

NextTags ==
    \/ \E response \in {[ok |-> TRUE, tags |-> l] : l \in TagLists(NumTags)}
                       \cup {Failure} :
          fetchExistingTagsResponse(response)
    \/ \E confirmed \in BOOLEAN : handleRemoveAllTags(confirmed)
    \/ \E outcome \in Outcomes : removeTagsResponse(outcome)

SpecTags == InitTags /\ [][NextTags]_vars

(***************************************************************************)
(* Remove-all-tags properties                                              *)
(***************************************************************************)
Answered(outcomes) ==
    {i \in 1..Len(requests) : requests[i].outcome \in outcomes}

FailedKeys == {requests[i].tag : i \in Answered({"error_response", "network_error"})}

\* what a toast tells of the batch: the success toast states a number of
\* removed tags and no failure, the error toast states neither counts nor keys
ToastReports(succeeded, failed, failedKeys) ==
    /\ toast.kind = "success"
    /\ toast.removed = succeeded
    /\ failed = 0
    /\ failedKeys = {}

\* C9: when a remove-all-tags batch has ended, a write was attempted for
\* every tag of the batch even if an earlier one failed, and the result
\* shown gives the numbers of succeeded and failed tags and the failing tags.
C9_BatchGoesOnAndReportsCounts ==
    batch.status = "done" =>
        /\ {requests[i].tag : i \in 1..Len(requests)}
              = {batch.tags[i] : i \in 1..Len(batch.tags)}
        /\ ToastReports(Cardinality(Answered({"ok"})),
                        Cardinality(Answered({"error_response", "network_error"})),
                        FailedKeys)

\* C10: a remove-all-tags batch over n distinct baseline tags has issued, when
\* it has ended, exactly n remove-tags requests, the i-th for the i-th
\* baseline tag, each with the full list of selected ids.
C10_OneRemoveRequestPerBaselineTag ==
    batch.status = "done" =>
        /\ Len(requests) = Len(batch.tags)
        /\ \A i \in 1..Len(requests) :
              /\ requests[i].tag = batch.tags[i]
              /\ requests[i].guids = getGuids

(***************************************************************************)
(* Curate view: add tag, and the back end's add-tags / remove-tags         *)
(***************************************************************************)
\* the texts typed into the tag input, as sequences of characters
TagInputs == {<<>>, <<" ">>, <<"F">>, <<" ", "F", " ">>, <<"P">>}

\* String.prototype.trim: without its leading and trailing white space
RECURSIVE TrimStart(_)
TrimStart(text) ==
    IF text # <<>> /\ Head(text) = " " THEN TrimStart(Tail(text)) ELSE text

RECURSIVE TrimEnd(_)
TrimEnd(text) ==
    IF text # <<>> /\ text[Len(text)] = " "
    THEN TrimEnd(SubSeq(text, 1, Len(text) - 1)) ELSE text

Trim(text) == TrimEnd(TrimStart(text))

\* the request of handleRemoveTag
RemoveTagsRequestOf(guids, tag) ==
    [endpoint |-> "remove-tags", guids |-> guids, tag |-> tag]

\* (handleAddTag posting to the endpoint of handleRemoveTag, of which it is
\* a copy)
AddTagsRequestAsRemoval(guids, tag) ==
    [endpoint |-> "remove-tags", guids |-> guids, tag |-> tag]

\* the request of handleAddTag
AddTagsRequest(guids, tag) ==
    [endpoint |-> "add-tags", guids |-> guids, tag |-> tag]

\* the guids of a request that are entities of the catalog
Known(cat, guids) == SelectSeq(guids, LAMBDA g : g \in DOMAIN cat.tags)

\* the back end's handling of a tag request: one write per entity of the
\* request, in the order of its guids
TagWrites(request, guids) ==
    [i \in 1..Len(guids) |->
        [facet |-> "tags",
         operation |-> IF request.endpoint = "add-tags" THEN "add" ELSE "remove",
         entity |-> guids[i],
         value |-> request.tag]]

\* the catalog after a tag write: add-tag is additive, remove-tag takes the
\* one tag away
AfterTagWrite(cat, w) ==
    IF w.entity \notin DOMAIN cat.tags THEN cat
    ELSE [cat EXCEPT !.tags[w.entity] =
             IF w.operation = "add" THEN @ \cup {w.value} ELSE @ \ {w.value}]

RECURSIVE AfterWrites(_, _)
AfterWrites(cat, writes) ==
    IF writes = <<>> THEN cat
    ELSE AfterWrites(AfterTagWrite(cat, Head(writes)), Tail(writes))

\* the form input a handler clears after a success response
Cleared(handler) ==
    IF handler = "handleAddTag" THEN [inputs EXCEPT !.addTagInput = <<>>]
    ELSE IF handler = "handleRemoveTag" THEN [inputs EXCEPT !.removeTagInput = <<>>]
    ELSE IF handler \in {"handleAddClassifications", "handleRemoveClassifications"}
    THEN [inputs EXCEPT !.selectedClassifications = <<>>]
    ELSE IF handler = "handleAddOwner" THEN [inputs EXCEPT !.selectedOwner = ""]
    ELSE IF handler = "handleAddExpert" THEN [inputs EXCEPT !.selectedExpert = ""]
    ELSE inputs

\* (the input cleared in the finally block)
InputsClearedAlways(handler, outcome) == Cleared(handler)

\* the form inputs after a write's response: cleared in the success branch,
\* left alone in the catch block
InputsAfterWrite(handler, outcome) ==
    IF outcome = "ok" THEN Cleared(handler) ELSE inputs

\* the toast of a write's response
WriteToast(outcome, done, failed) ==
    IF outcome = "ok" THEN [kind |-> "success", title |-> done]
    ELSE [kind |-> "error", title |-> failed]

\* the tag input's onChange
setAddTagInput(value) ==
    /\ ~isSubmitting
    /\ Len(selectedAssets) > 0
    /\ inputs' = [inputs EXCEPT !.addTagInput = value]
    /\ UNCHANGED <<selectionVars, lastOp, filteredAssets, columnVars, isSubmitting,
                   tagVars, write, loading, existingOwners, existingExperts,
                   existingClassifications, catalogVars, pageVars>>

\* handleAddTag up to its request (Enter in the tag input, or the button;
\* both are disabled while a write runs or the selection is empty)
handleAddTag ==
    /\ ~isSubmitting
    /\ Len(selectedAssets) > 0
    /\ IF Trim(inputs.addTagInput) = <<>> THEN
           /\ toast' = [kind |-> "error", title |-> "Validation Error"]
           /\ UNCHANGED <<isSubmitting, write>>
       ELSE IF Len(selectedAssets) = 0 THEN
           /\ toast' = [kind |-> "error", title |-> "No Assets Selected"]
           /\ UNCHANGED <<isSubmitting, write>>
       ELSE
           /\ isSubmitting' = TRUE
           /\ write' = [active |-> TRUE, handler |-> "handleAddTag",
                        request |-> AddTagsRequest(getGuids, Trim(inputs.addTagInput))]
           /\ UNCHANGED toast
    /\ UNCHANGED <<selectionVars, lastOp, filteredAssets, columnVars, existingTags,
                   tagsFetching, batch, requests, inputs, loading, existingOwners,
                   existingExperts, existingClassifications, catalogVars, pageVars>>

\* handleAddTag from the add-tags response on; the back end has handled the
\* request when it answers with success, has not when it answers with an
\* error, and may or may not have when the connection fails
addTagsResponse(outcome, handled) ==
    /\ write.active
    /\ write.handler = "handleAddTag"
    /\ outcome = "ok" => handled
    /\ outcome = "error_response" => ~handled
    /\ catalogWrites' = IF handled
                        THEN TagWrites(write.request, Known(catalog, write.request.guids))
                        ELSE <<>>
    /\ catalog' = AfterWrites(catalog, catalogWrites')
    /\ toast' = WriteToast(outcome, "Tag Added Successfully", "Error Adding Tag")
    /\ inputs' = InputsAfterWrite(write.handler, outcome)
    /\ isSubmitting' = FALSE
    /\ write' = [active |-> FALSE]
    /\ UNCHANGED <<selectionVars, lastOp, filteredAssets, columnVars, existingTags,
                   tagsFetching, batch, requests, loading, existingOwners,
                   existingExperts, existingClassifications, pageVars>>

\* the tags the entities of the selection can have in the catalog
CatalogsWithTags ==
    {[tags |-> t, owner |-> [g \in {Guid[1], Guid[2]} |-> ""],
      expert |-> [g \in {Guid[1], Guid[2]} |-> ""]] :
        t \in [{Guid[1], Guid[2]} -> SUBSET {<<"P">>}]}

InitAddTag ==
    /\ mounted = TRUE
    /\ selectedAssets = CurateSelection
    /\ slot = Persisted(selectedAssets)
    /\ lastOp = NoOp
    /\ filteredAssets = <<>>
    /\ recentAssets = Absent
    /\ recentAssetIds = <<>>
    /\ clicks = 0
    /\ NoLineages
    /\ activeTab = "tags"
    /\ schemaData = EmptyRecord
    /\ columnClassifications = EmptyRecord
    /\ showSchemaView = FALSE
    /\ autoClassificationSuggestions = EmptyRecord
    /\ edited = EmptyRecord
    /\ suggested = EmptyRecord
    /\ applying = [active |-> FALSE]
    /\ isSubmitting = FALSE
    /\ existingTags = <<>>
    /\ tagsFetching = FALSE
    /\ batch = [status |-> "idle"]
    /\ requests = <<>>
    /\ toast = [kind |-> "none"]
    /\ InitForm
    /\ catalog \in CatalogsWithTags
    /\ catalogWrites = <<>>

NextAddTag ==
    \/ \E value \in TagInputs : setAddTagInput(value)
    \/ handleAddTag
    \/ \E outcome \in Outcomes, handled \in BOOLEAN : addTagsResponse(outcome, handled)

SpecAddTag == InitAddTag /\ [][NextAddTag]_vars

otherCurateVars == <<columnVars, batch, requests>>

\* useEffect([selectedAssets]) of the Curate view on a new selection: the
\* three baseline fetches start, or the baselines are emptied
selectionEffect(selection) ==
    IF Len(selection) > 0 THEN
        /\ tagsFetching' = TRUE
        /\ loading' = {"contacts", "classifications"}
        /\ UNCHANGED <<existingTags, existingOwners, existingExperts,
                       existingClassifications>>
    ELSE
        /\ existingTags' = <<>>
        /\ existingOwners' = <<>>
        /\ existingExperts' = <<>>
        /\ existingClassifications' = <<>>
        /\ UNCHANGED <<tagsFetching, loading>>

\* the 'Clear All' button of the Selected Assets card
curateClearAll ==
    /\ mounted
    /\ Len(selectedAssets) > 0
    /\ selectedAssets' = <<>>
    /\ slot' = Persisted(selectedAssets')
    /\ selectionEffect(selectedAssets')
    /\ UNCHANGED <<mounted, lastOp, filteredAssets, otherCurateVars, isSubmitting,
                   toast, inputs, write, catalogVars, pageVars>>

\* the remove-tag input's onChange
setRemoveTagInput(value) ==
    /\ ~isSubmitting
    /\ Len(selectedAssets) > 0
    /\ inputs' = [inputs EXCEPT !.removeTagInput = value]
    /\ UNCHANGED <<selectionVars, lastOp, filteredAssets, columnVars, isSubmitting,
                   tagVars, write, loading, existingOwners, existingExperts,
                   existingClassifications, catalogVars, pageVars>>

\* handleRemoveTag up to its request
handleRemoveTag ==
    /\ ~isSubmitting
    /\ Len(selectedAssets) > 0
    /\ IF Trim(inputs.removeTagInput) = <<>> THEN
           /\ toast' = [kind |-> "error", title |-> "Validation Error"]
           /\ UNCHANGED <<isSubmitting, write>>
       ELSE IF Len(selectedAssets) = 0 THEN
           /\ toast' = [kind |-> "error", title |-> "No Assets Selected"]
           /\ UNCHANGED <<isSubmitting, write>>
       ELSE
           /\ isSubmitting' = TRUE
           /\ write' = [active |-> TRUE, handler |-> "handleRemoveTag",
                        request |-> RemoveTagsRequestOf(getGuids,
                                                        Trim(inputs.removeTagInput))]
           /\ UNCHANGED toast
    /\ UNCHANGED <<selectionVars, lastOp, filteredAssets, columnVars, existingTags,
                   tagsFetching, batch, requests, inputs, loading, existingOwners,
                   existingExperts, existingClassifications, catalogVars, pageVars>>

\* handleRemoveTag from the remove-tags response on; its finally block
\* refreshes the tags whatever the outcome
handleRemoveTagResponse(outcome, handled) ==
    /\ write.active
    /\ write.handler = "handleRemoveTag"
    /\ outcome = "ok" => handled
    /\ outcome = "error_response" => ~handled
    /\ catalogWrites' = IF handled
                        THEN TagWrites(write.request, Known(catalog, write.request.guids))
                        ELSE <<>>
    /\ catalog' = AfterWrites(catalog, catalogWrites')
    /\ toast' = WriteToast(outcome, "Tag Removed Successfully", "Error Removing Tag")
    /\ inputs' = InputsAfterWrite(write.handler, outcome)
    /\ isSubmitting' = FALSE
    /\ tagsFetching' = TRUE
    /\ write' = [active |-> FALSE]
    /\ UNCHANGED <<selectionVars, lastOp, filteredAssets, columnVars, existingTags,
                   batch, requests, loading, existingOwners, existingExperts,
                   existingClassifications, pageVars>>

RECURSIVE Without(_, _)
Without(list, x) ==
    IF list = <<>> THEN <<>>
    ELSE (IF Head(list) = x THEN <<>> ELSE <<Head(list)>>) \o Without(Tail(list), x)

Includes(list, x) == \E i \in 1..Len(list) : list[i] = x

\* toggleClassificationSelection (the list entries are not disabled while a
\* write is running or the selection is empty)
toggleClassificationSelection(classificationName) ==
    /\ inputs' = [inputs EXCEPT !.selectedClassifications =
                     IF Includes(@, classificationName)
                     THEN Without(@, classificationName)
                     ELSE Append(@, classificationName)]
    /\ UNCHANGED <<selectionVars, lastOp, filteredAssets, columnVars, isSubmitting,
                   tagVars, write, loading, existingOwners, existingExperts,
                   existingClassifications, catalogVars, pageVars>>

ClassificationsRequest(endpoint, guids, classifications) ==
    [endpoint |-> endpoint, guids |-> guids, classifications |-> classifications]

\* handleAddClassifications / handleRemoveClassifications up to the request
\* (the buttons are disabled while a write runs, while nothing is chosen and
\* while the selection is empty)
handleClassifications(handler, endpoint) ==
    /\ ~isSubmitting
    /\ Len(inputs.selectedClassifications) > 0
    /\ Len(selectedAssets) > 0
    /\ IF Len(selectedAssets) = 0 THEN
           /\ toast' = [kind |-> "error", title |-> "No Assets Selected"]
           /\ UNCHANGED <<isSubmitting, write>>
       ELSE
           /\ isSubmitting' = TRUE
           /\ write' = [active |-> TRUE, handler |-> handler,
                        request |-> ClassificationsRequest(endpoint, getGuids,
                                        inputs.selectedClassifications)]
           /\ UNCHANGED toast
    /\ UNCHANGED <<selectionVars, lastOp, filteredAssets, columnVars, existingTags,
                   tagsFetching, batch, requests, inputs, loading, existingOwners,
                   existingExperts, existingClassifications, catalogVars, pageVars>>

handleAddClassifications ==
    handleClassifications("handleAddClassifications", "add-classifications")

handleRemoveClassifications ==
    handleClassifications("handleRemoveClassifications", "remove-classifications")

\* both handlers from the response on
handleClassificationsResponse(outcome) ==
    /\ write.active
    /\ write.handler \in {"handleAddClassifications", "handleRemoveClassifications"}
    /\ toast' = IF write.handler = "handleAddClassifications"
                THEN WriteToast(outcome, "Classifications Added Successfully",
                                "Error Adding Classifications")
                ELSE WriteToast(outcome, "Classifications Removed Successfully",
                                "Error Removing Classifications")
    /\ inputs' = InputsAfterWrite(write.handler, outcome)
    /\ loading' = IF outcome = "ok" THEN loading \cup {"classifications"} ELSE loading
    /\ isSubmitting' = FALSE
    /\ write' = [active |-> FALSE]
    /\ UNCHANGED <<selectionVars, lastOp, filteredAssets, columnVars, existingTags,
                   tagsFetching, batch, requests, existingOwners, existingExperts,
                   existingClassifications, catalogVars, pageVars>>

\* the users offered by the contact select
Users == {"u1"}

\* the contact select's onValueChange, by the contactType shown
setSelectedContact(contactType, value) ==
    /\ ~isSubmitting
    /\ Len(selectedAssets) > 0
    /\ inputs' = IF contactType = "owner" THEN [inputs EXCEPT !.selectedOwner = value]
                 ELSE IF contactType = "expert" THEN [inputs EXCEPT !.selectedExpert = value]
                 ELSE [inputs EXCEPT !.selectedOwner = value, !.selectedExpert = value]
    /\ UNCHANGED <<selectionVars, lastOp, filteredAssets, columnVars, isSubmitting,
                   tagVars, write, loading, existingOwners, existingExperts,
                   existingClassifications, catalogVars, pageVars>>

\* (a request that leaves the previous contact in place)
AddOwnerRequestKeeping(guids, contactType, userId) ==
    [endpoint |-> "add-owner", guids |-> guids, contactType |-> contactType,
     userId |-> userId, removeExisting |-> FALSE]

\* the request of handleAddOwner / handleAddExpert
AddOwnerRequest(guids, contactType, userId) ==
    [endpoint |-> "add-owner", guids |-> guids, contactType |-> contactType,
     userId |-> userId, removeExisting |-> TRUE]

\* the request of the remove handlers of owners and experts
RemoveOwnerRequest(guids, contactType) ==
    [endpoint |-> "remove-owner", guids |-> guids, contactType |-> contactType]

\* handleAddOwner / handleAddExpert up to the request
handleAddContact(handler, contactType, userId) ==
    /\ ~isSubmitting
    /\ Len(selectedAssets) > 0
    /\ IF userId = "" THEN
           /\ toast' = [kind |-> "error", title |-> "Validation Error"]
           /\ UNCHANGED <<isSubmitting, write>>
       ELSE IF Len(selectedAssets) = 0 THEN
           /\ toast' = [kind |-> "error", title |-> "No Assets Selected"]
           /\ UNCHANGED <<isSubmitting, write>>
       ELSE
           /\ isSubmitting' = TRUE
           /\ write' = [active |-> TRUE, handler |-> handler,
                        request |-> AddOwnerRequest(getGuids, contactType, userId)]
           /\ UNCHANGED toast
    /\ UNCHANGED <<selectionVars, lastOp, filteredAssets, columnVars, existingTags,
                   tagsFetching, batch, requests, inputs, loading, existingOwners,
                   existingExperts, existingClassifications, catalogVars, pageVars>>

handleAddOwner ==
    /\ inputs.selectedOwner # ""
    /\ handleAddContact("handleAddOwner", "Owner", inputs.selectedOwner)

handleAddExpert ==
    /\ inputs.selectedExpert # ""
    /\ handleAddContact("handleAddExpert", "Expert", inputs.selectedExpert)

\* the back end's handling of a contact request, entity by entity in the
\* order of its guids: with removeExisting the previous contact is removed
\* first and the add is made only when that remove succeeded
RECURSIVE ContactWrites(_, _, _)
ContactWrites(request, guids, failedRemoves) ==
    IF guids = <<>> THEN <<>>
    ELSE LET g == Head(guids)
             remove == [facet |-> "contacts", operation |-> "remove", entity |-> g,
                        contactType |-> request.contactType,
                        result |-> IF g \in failedRemoves THEN "failed" ELSE "ok"]
             add == [facet |-> "contacts", operation |-> "add", entity |-> g,
                     contactType |-> request.contactType, value |-> request.userId,
                     result |-> "ok"]
             forEntity ==
                 IF request.endpoint = "remove-owner" THEN <<remove>>
                 ELSE IF ~request.removeExisting THEN <<add>>
                 ELSE IF remove.result = "ok" THEN <<remove, add>>
                 ELSE <<remove>>
         IN forEntity \o ContactWrites(request, Tail(guids), failedRemoves)

AfterContactWrite(cat, w) ==
    IF w.result # "ok" \/ w.entity \notin DOMAIN cat.owner THEN cat
    ELSE LET contact == IF w.operation = "add" THEN w.value ELSE ""
         IN IF w.contactType = "Owner"
            THEN [cat EXCEPT !.owner[w.entity] = contact]
            ELSE [cat EXCEPT !.expert[w.entity] = contact]

RECURSIVE AfterContactWrites(_, _)
AfterContactWrites(cat, writes) ==
    IF writes = <<>> THEN cat
    ELSE AfterContactWrites(AfterContactWrite(cat, Head(writes)), Tail(writes))

ContactHandlers ==
    {"handleAddOwner", "handleAddExpert", "handleRemoveOwner", "handleRemoveExpert",
     "handleRemoveSpecificOwner", "handleRemoveSpecificExpert"}

\* the contact handlers from the response on; the back end has handled the
\* request when it answers with success, has not when it answers with an
\* error, and may or may not have when the connection fails
handleContactResponse(outcome, handled, failedRemoves) ==
    /\ write.active
    /\ write.handler \in ContactHandlers
    /\ outcome = "ok" => handled
    /\ outcome = "error_response" => ~handled
    /\ ~handled => failedRemoves = {}
    /\ catalogWrites' = IF handled
                        THEN ContactWrites(write.request,
                                           Known(catalog, write.request.guids),
                                           failedRemoves)
                        ELSE <<>>
    /\ catalog' = AfterContactWrites(catalog, catalogWrites')
    /\ toast' = IF write.handler = "handleAddOwner"
                THEN WriteToast(outcome, "Owner Added Successfully", "Error Adding Owner")
                ELSE IF write.handler = "handleAddExpert"
                THEN WriteToast(outcome, "Expert Added Successfully", "Error Adding Expert")
                ELSE IF write.request.contactType = "Owner"
                THEN WriteToast(outcome, "Owner Removed Successfully", "Error Removing Owner")
                ELSE WriteToast(outcome, "Expert Removed Successfully",
                                "Error Removing Expert")
    /\ inputs' = InputsAfterWrite(write.handler, outcome)
    /\ loading' = IF outcome = "ok" THEN loading \cup {"contacts"} ELSE loading
    /\ isSubmitting' = FALSE
    /\ write' = [active |-> FALSE]
    /\ UNCHANGED <<selectionVars, lastOp, filteredAssets, columnVars, existingTags,
                   tagsFetching, batch, requests, existingOwners, existingExperts,
                   existingClassifications, pageVars>>

\* the remove handlers of owners and experts up to the request: by the
\* 'Remove' button (disabled while a write runs or the selection is empty),
\* or by the badge of an existing contact (never disabled; one write at a
\* time is modelled)
handleRemoveContact(handler, contactType, existing, confirmed) ==
    /\ ~write.active /\ ~applying.active /\ batch.status # "running"
    /\ Len(existing) > 0
    /\ handler \in {"handleRemoveOwner", "handleRemoveExpert"} =>
          ~isSubmitting /\ Len(selectedAssets) > 0
    /\ IF Len(selectedAssets) = 0 \/ ~confirmed THEN
           UNCHANGED <<isSubmitting, write>>
       ELSE
           /\ isSubmitting' = TRUE
           /\ write' = [active |-> TRUE, handler |-> handler,
                        request |-> RemoveOwnerRequest(getGuids, contactType)]
    /\ UNCHANGED <<selectionVars, lastOp, filteredAssets, columnVars, tagVars, inputs,
                   loading, existingOwners, existingExperts, existingClassifications,
                   catalogVars, pageVars>>

handleRemoveOwner(confirmed) ==
    handleRemoveContact("handleRemoveOwner", "Owner", existingOwners, confirmed)

handleRemoveExpert(confirmed) ==
    handleRemoveContact("handleRemoveExpert", "Expert", existingExperts, confirmed)

handleRemoveSpecificOwner(confirmed) ==
    handleRemoveContact("handleRemoveSpecificOwner", "Owner", existingOwners, confirmed)

handleRemoveSpecificExpert(confirmed) ==
    handleRemoveContact("handleRemoveSpecificExpert", "Expert", existingExperts, confirmed)

\* fetchExistingContacts from its response on
fetchExistingContactsResponse(response) ==
    /\ "contacts" \in loading
    /\ loading' = loading \ {"contacts"}
    /\ existingOwners' = IF response.ok THEN response.owners ELSE existingOwners
    /\ existingExperts' = IF response.ok THEN response.experts ELSE existingExperts
    /\ UNCHANGED <<selectionVars, lastOp, filteredAssets, columnVars, isSubmitting,
                   tagVars, inputs, write, existingClassifications, catalogVars,
                   pageVars>>

\* Array.from(new Set) : the first occurrences, in order
RECURSIVE ArrayFromSet(_)
ArrayFromSet(list) ==
    IF list = <<>> THEN <<>>
    ELSE LET before == ArrayFromSet(SubSeq(list, 1, Len(list) - 1))
         IN IF Includes(before, list[Len(list)]) THEN before
            ELSE Append(before, list[Len(list)])

\* the classifications of all assets of the response, each once
RECURSIVE Flattened(_)
Flattened(perAsset) ==
    IF perAsset = <<>> THEN <<>>
    ELSE ArrayFromSet(Flattened(SubSeq(perAsset, 1, Len(perAsset) - 1))
                      \o perAsset[Len(perAsset)])

\* fetchExistingClassifications from its response on
fetchExistingClassificationsResponse(response) ==
    /\ "classifications" \in loading
    /\ loading' = loading \ {"classifications"}
    /\ existingClassifications' =
          IF response.ok THEN Flattened(response.classifications)
          ELSE existingClassifications
    /\ UNCHANGED <<selectionVars, lastOp, filteredAssets, columnVars, isSubmitting,
                   tagVars, inputs, write, existingOwners, existingExperts,
                   catalogVars, pageVars>>

\* the answers of the baseline fetches
TagsResponses == {[ok |-> TRUE, tags |-> <<"A">>]}

ContactsResponses == {[ok |-> TRUE, owners |-> <<"u0">>, experts |-> <<"u0">>]}

\* per asset its classifications
ClassificationsResponses ==
    {[ok |-> TRUE, classifications |-> <<<<"PII">>, <<"PII", "EMAIL">>>>]}

\* the Curate view mounted on a selection: its effect has started the three
\* baseline fetches
InitCurateView ==
    /\ mounted = TRUE
    /\ selectedAssets = CurateSelection
    /\ slot = Persisted(selectedAssets)
    /\ lastOp = NoOp
    /\ filteredAssets = <<>>
    /\ recentAssets = Absent
    /\ recentAssetIds = <<>>
    /\ clicks = 0
    /\ NoLineages
    /\ activeTab \in {"tags", "contacts", "classifications"}
    /\ schemaData = EmptyRecord
    /\ columnClassifications = EmptyRecord
    /\ showSchemaView = FALSE
    /\ autoClassificationSuggestions = EmptyRecord
    /\ edited = EmptyRecord
    /\ suggested = EmptyRecord
    /\ applying = [active |-> FALSE]
    /\ isSubmitting = FALSE
    /\ existingTags = <<>>
    /\ tagsFetching = TRUE
    /\ batch = [status |-> "idle"]
    /\ requests = <<>>
    /\ toast = [kind |-> "none"]
    /\ inputs = NoInputs
    /\ write = [active |-> FALSE]
    /\ loading = {"contacts", "classifications"}
    /\ existingOwners = <<>>
    /\ existingExperts = <<>>
    /\ existingClassifications = <<>>
    /\ catalog = NoCatalog
    /\ catalogWrites = <<>>

\* the handlers of one tab can be invoked while its content is rendered;
\* the Selected Assets card is rendered with each of the three tabs, and
\* responses arrive whatever is rendered (the tab is not switched here)
TagsTab ==
    /\ activeTab = "tags"
    /\ \/ \E value \in {<<>>, <<" ", "F", " ">>} : setAddTagInput(value)
       \/ handleAddTag
       \/ \E value \in {<<>>, <<"A">>} : setRemoveTagInput(value)
       \/ handleRemoveTag

ContactsTab ==
    /\ activeTab = "contacts"
    /\ \/ \E contactType \in {"owner", "expert", "both"}, value \in Users :
             setSelectedContact(contactType, value)
       \/ handleAddOwner
       \/ handleAddExpert
       \/ \E confirmed \in BOOLEAN : handleRemoveOwner(confirmed)
       \/ \E confirmed \in BOOLEAN : handleRemoveExpert(confirmed)
       \/ \E confirmed \in BOOLEAN : handleRemoveSpecificOwner(confirmed)
       \/ \E confirmed \in BOOLEAN : handleRemoveSpecificExpert(confirmed)

ClassificationsTab ==
    /\ activeTab = "classifications"
    /\ \/ toggleClassificationSelection("PII")
       \/ handleAddClassifications
       \/ handleRemoveClassifications
       \/ \E response \in {[ok |-> TRUE, schema |-> [c \in {"c1"} |-> <<"PII">>]],
                           Failure} :
             fetchSchema(response)
       \/ \E value \in {"EMAIL", ""} : onValueChange("c1", value)
       \/ closeSchemaView
       \/ applyColumnClassifications

Responses ==
    \/ \E outcome \in Outcomes, handled \in BOOLEAN : addTagsResponse(outcome, handled)
    \/ \E outcome \in Outcomes, handled \in BOOLEAN :
          handleRemoveTagResponse(outcome, handled)
    \/ \E outcome \in Outcomes : handleClassificationsResponse(outcome)
    \/ \E outcome \in Outcomes, handled \in BOOLEAN,
          failedRemoves \in SUBSET {Guid[1], Guid[2]} :
             handleContactResponse(outcome, handled, failedRemoves)
    \/ \E ok \in BOOLEAN : classifyColumnsResponse(ok)
    \/ \E response \in TagsResponses \cup {Failure} : fetchExistingTagsResponse(response)
    \/ \E response \in ContactsResponses \cup {Failure} :
          fetchExistingContactsResponse(response)
    \/ \E response \in ClassificationsResponses \cup {Failure} :
          fetchExistingClassificationsResponse(response)

NextCurate ==
    \/ curateClearAll
    \/ TagsTab
    \/ ContactsTab
    \/ ClassificationsTab
    \/ Responses

SpecCurate == InitCurateView /\ [][NextCurate]_vars

(***************************************************************************)
(* Write-handler properties                                                *)
(***************************************************************************)
Failures == Outcomes \ {"ok"}

\* a step in which a write handler takes a failure: an error response or a
\* failed connection
FailedWriteResponse ==
    \/ \E outcome \in Failures, handled \in BOOLEAN : addTagsResponse(outcome, handled)
    \/ \E outcome \in Failures, handled \in BOOLEAN :
          handleRemoveTagResponse(outcome, handled)
    \/ \E outcome \in Failures : handleClassificationsResponse(outcome)
    \/ \E outcome \in Failures, handled \in BOOLEAN,
          failedRemoves \in SUBSET {Guid[1], Guid[2]} :
             handleContactResponse(outcome, handled, failedRemoves)
    \/ classifyColumnsResponse(FALSE)

\* C12: when a write fails, the pending input that produced it (addTagInput,
\* removeTagInput, selectedClassifications, selectedOwner, selectedExpert,
\* columnClassifications with its panel) and the selection are what they
\* were, and the handler can be invoked again.
C12_FailedWriteKeepsPendingInput ==
    [][FailedWriteResponse =>
          /\ inputs' = inputs
          /\ columnClassifications' = columnClassifications
          /\ showSchemaView' = showSchemaView
          /\ selectedAssets' = selectedAssets
          /\ ~isSubmitting'
      ]_vars

\* adding the owner u1 has failed; u1 is still chosen and the button is free
C12_Witness ==
    /\ toast.kind = "error"
    /\ toast.title = "Error Adding Owner"
    /\ inputs.selectedOwner = "u1"
    /\ Len(selectedAssets) > 0
    /\ ~isSubmitting

\* C13: every successful apply (add tag, remove tag, add / remove
\* classifications, column classifications, add / remove contact) starts a
\* new fetch of its facet's baseline and clears the pending values it has
\* committed.
C13_SuccessfulApplyRefetchesAndClears ==
    [][/\ addTagsResponse("ok", TRUE) =>
             tagsFetching' /\ inputs'.addTagInput = <<>>
       /\ handleRemoveTagResponse("ok", TRUE) =>
             tagsFetching' /\ inputs'.removeTagInput = <<>>
       /\ handleClassificationsResponse("ok") =>
             "classifications" \in loading' /\ inputs'.selectedClassifications = <<>>
       /\ (\E failedRemoves \in SUBSET {Guid[1], Guid[2]} :
              handleContactResponse("ok", TRUE, failedRemoves)) =>
             /\ "contacts" \in loading'
             /\ write.handler = "handleAddOwner" => inputs'.selectedOwner = ""
             /\ write.handler = "handleAddExpert" => inputs'.selectedExpert = ""
       /\ classifyColumnsResponse(TRUE) =>
             /\ "classifications" \in loading'
             /\ columnClassifications' = EmptyRecord
             /\ edited' = EmptyRecord /\ suggested' = EmptyRecord
      ]_vars

\* C15: no apply handler sends a request while the selection is empty: a
\* write request (tags, classifications, contacts) or a classify-columns
\* request starts only from a state with at least one selected asset.
C15_NoRequestWithEmptySelection ==
    [][\/ ~write.active /\ write'.active
       \/ ~applying.active /\ applying'.active
       => Len(selectedAssets) > 0
      ]_vars

\* a baseline fetch or a schema fetch ends in a failure
FailedFetchResponse ==
    \/ fetchExistingTagsResponse(Failure)
    \/ fetchExistingContactsResponse(Failure)
    \/ fetchExistingClassificationsResponse(Failure)
    \/ fetchSchema(Failure)

\* C16: when a baseline fetch or the schema fetch fails, the baselines, the
\* schema and the pending values are what they were before the response.
C16_FailedFetchStoresNothing ==
    [][FailedFetchResponse =>
          UNCHANGED <<existingTags, existingOwners, existingExperts,
                      existingClassifications, schemaData, columnClassifications,
                      showSchemaView, inputs, selectedAssets>>
      ]_vars

\* the schema fetch has failed while a fetched schema with an edited column
\* is shown, and the classifications baseline is in place
C16_Witness ==
    /\ toast.kind = "error"
    /\ toast.title = "Error Fetching Schema"
    /\ showSchemaView
    /\ DOMAIN schemaData = {"c1"}
    /\ columnClassifications = [c \in {"c1"} |-> <<"EMAIL">>]
    /\ existingClassifications = <<"PII", "EMAIL">>

(***************************************************************************)
(* Curate view: replacing the owner                                        *)
(***************************************************************************)
\* the contacts the entities of the selection can have in the catalog
CatalogsWithContacts ==
    {[tags |-> [g \in {Guid[1], Guid[2]} |-> {}], owner |-> o, expert |-> e] :
        o \in [{Guid[1], Guid[2]} -> {"", "u0"}],
        e \in [{Guid[1], Guid[2]} -> {"", "u0"}]}

InitOwner ==
    /\ mounted = TRUE
    /\ selectedAssets = CurateSelection
    /\ slot = Persisted(selectedAssets)
    /\ lastOp = NoOp
    /\ filteredAssets = <<>>
    /\ recentAssets = Absent
    /\ recentAssetIds = <<>>
    /\ clicks = 0
    /\ NoLineages
    /\ activeTab = "contacts"
    /\ schemaData = EmptyRecord
    /\ columnClassifications = EmptyRecord
    /\ showSchemaView = FALSE
    /\ autoClassificationSuggestions = EmptyRecord
    /\ edited = EmptyRecord
    /\ suggested = EmptyRecord
    /\ applying = [active |-> FALSE]
    /\ isSubmitting = FALSE
    /\ existingTags = <<>>
    /\ tagsFetching = FALSE
    /\ batch = [status |-> "idle"]
    /\ requests = <<>>
    /\ toast = [kind |-> "none"]
    /\ inputs = NoInputs
    /\ write = [active |-> FALSE]
    /\ loading = {"contacts"}
    /\ existingOwners = <<>>
    /\ existingExperts = <<>>
    /\ existingClassifications = <<>>
    /\ catalog \in CatalogsWithContacts
    /\ catalogWrites = <<>>

NextOwner ==
    \/ ContactsTab
    \/ \E outcome \in Outcomes, handled \in BOOLEAN,
          failedRemoves \in SUBSET {Guid[1], Guid[2]} :
             handleContactResponse(outcome, handled, failedRemoves)
    \/ \E response \in ContactsResponses \cup {Failure} :
          fetchExistingContactsResponse(response)

SpecOwner == InitOwner /\ [][NextOwner]_vars

\* the positions of the writes of one operation on one entity
WritesOn(writes, operation, entity) ==
    {i \in 1..Len(writes) :
        writes[i].operation = operation /\ writes[i].entity = entity}

NumAssets == 12

MaxClicks == 3

\* the ids of the assets of the catalog
AssetId == <<"a1", "a2", "a3", "a4", "a5", "a6", "a7", "a8", "a9", "a10", "a11",
             "a12", "a13", "a14">>

\* slice(0, 10) of handleAssetClick
RecentCap == 10

\* slice(0, 4) of the Dashboard's recent assets
ShownRecent == 4

\* the first asset is a container, the others are not
AssetTypeOf(id) ==
    IF id = AssetId[1] THEN "Azure Blob Container" ELSE "Azure SQL Table"

\* usePurviewAssets: the assets of both pages
PageAssets ==
    {[id |-> AssetId[i], assetType |-> AssetTypeOf(AssetId[i])] : i \in 1..NumAssets}

\* JSON.stringify of an array of strings: each string between quotes
StringifyIds(list) == [i \in 1..Len(list) |-> <<"\"", list[i], "\"">>]

\* JSON.parse of such a text
ParseIds(text) == [i \in 1..Len(text) |-> text[i][2]]

\* slice(0, n)
Slice(list, n) == SubSeq(list, 1, IF Len(list) < n THEN Len(list) ELSE n)

\* the list read from localStorage by handleAssetClick and by the
\* Dashboard's mount effect ([] when the slot is absent)
ReadRecent ==
    IF recentAssets.present THEN ParseIds(recentAssets.text) ELSE <<>>

\* (the id put in front without removing its earlier occurrence)
FrontInsertedKeeping(recent, assetId) == Slice(<<assetId>> \o recent, RecentCap)

\* [assetId, ...recent.filter(id => id !== assetId)].slice(0, 10)
FrontInserted(recent, assetId) ==
    Slice(<<assetId>> \o Without(recent, assetId), RecentCap)

\* the Dashboard's recent assets: the loaded ids that are assets, the first
\* four of them
ShownRecentAssets ==
    Slice(SelectSeq(recentAssetIds, LAMBDA id : \E a \in PageAssets : a.id = id),
          ShownRecent)

\* the Dashboard page mounts: its effect loads the stored ids
loadRecentAssets ==
    /\ recentAssetIds' = ReadRecent
    /\ UNCHANGED <<recentAssets, clicks, activeTab, lineageVars>>
    /\ UNCHANGED <<selectionVars, lastOp, filteredAssets, curateVars>>

\* Dashboard.handleAssetClick, from the card of a shown recent asset
DashboardHandleAssetClick(assetId) ==
    /\ clicks < MaxClicks
    /\ Includes(ShownRecentAssets, assetId)
    /\ recentAssets' = Stored(StringifyIds(FrontInserted(ReadRecent, assetId)))
    /\ recentAssetIds' = FrontInserted(ReadRecent, assetId)
    /\ clicks' = clicks + 1
    /\ UNCHANGED <<activeTab, lineageVars>>
    /\ UNCHANGED <<selectionVars, lastOp, filteredAssets, curateVars>>

\* BrowseAssets.handleAssetClick, from the card of any asset: a container
\* becomes the container filter and is not recorded
BrowseAssetsHandleAssetClick(asset) ==
    /\ clicks < MaxClicks
    /\ recentAssets' =
          IF asset.assetType = "Azure Blob Container" THEN recentAssets
          ELSE Stored(StringifyIds(FrontInserted(ReadRecent, asset.id)))
    /\ clicks' = clicks + 1
    /\ UNCHANGED <<recentAssetIds, activeTab, lineageVars>>
    /\ UNCHANGED <<selectionVars, lastOp, filteredAssets, curateVars>>

\* the lengths of the list the slot holds at the start
StoredLengths == {0, RecentCap - 1, RecentCap}

\* the slot is absent, or holds the ids of earlier clicks (no container:
\* the Browse page records none, the Dashboard shows recorded ids only)
InitRecent ==
    /\ mounted = TRUE
    /\ selectedAssets = <<>>
    /\ slot = Persisted(selectedAssets)
    /\ lastOp = NoOp
    /\ filteredAssets = <<>>
    /\ recentAssets \in {Absent} \cup
          {Stored(StringifyIds([i \in 1..n |-> AssetId[i + 1]])) : n \in StoredLengths}
    /\ recentAssetIds = <<>>
    /\ clicks = 0
    /\ NoLineages
    /\ activeTab = "tags"
    /\ InitCurate

NextRecent ==
    \/ loadRecentAssets
    \/ \E assetId \in {a.id : a \in PageAssets} : DashboardHandleAssetClick(assetId)
    \/ \E asset \in PageAssets : BrowseAssetsHandleAssetClick(asset)

SpecRecent == InitRecent /\ [][NextRecent]_vars

(***************************************************************************)
(* Recent-assets properties                                                *)
(***************************************************************************)
\* at most ten ids, none of them twice
CappedAndDistinct(list) ==
    /\ Len(list) <= RecentCap
    /\ \A i, j \in 1..Len(list) : list[i] = list[j] => i = j

\* the step has put assetId first, followed by the other ids of the list
\* in the order they had (the ids beyond the tenth place are dropped)
LatestFirst(assetId) ==
    LET before == ReadRecent
        after == ReadRecent'
        others == SelectSeq(before, LAMBDA id : id # assetId)
    IN  /\ Len(after) >= 1
        /\ after[1] = assetId
        /\ Len(after) = IF Len(others) < RecentCap THEN Len(others) + 1 ELSE RecentCap
        /\ \A i \in 2..Len(after) : after[i] = others[i - 1]

\* C18 as stated: after any asset click, on the Dashboard or on the Browse
\* page, the stored list has at most ten ids, none twice, and the clicked
\* id comes first, followed by the earlier ids in their previous order.
C18_EveryClickIsRecordedFirst ==
    /\ [](CappedAndDistinct(ReadRecent))
    /\ [][\A asset \in PageAssets :
            (DashboardHandleAssetClick(asset.id) \/ BrowseAssetsHandleAssetClick(asset))
               => LatestFirst(asset.id)
         ]_vars

\* C18, amended: the stored list always has at most ten ids, none twice; a
\* click on the Dashboard, and a click on the Browse page on an asset that is
\* not a Blob Container, puts the clicked id first, followed by the earlier
\* ids in their previous order; a click on a Blob Container on the Browse
\* page leaves the list as it is.
C18_RecordedClickIsFirstContainerClickIsNot ==
    /\ [](CappedAndDistinct(ReadRecent))
    /\ [][\A asset \in PageAssets :
            /\ DashboardHandleAssetClick(asset.id) => LatestFirst(asset.id)
            /\ BrowseAssetsHandleAssetClick(asset) =>
                  IF asset.assetType = "Azure Blob Container"
                  THEN UNCHANGED recentAssets
                  ELSE LatestFirst(asset.id)
         ]_vars

\* a new id has been clicked while ten ids were stored: it is first, the
\* former first id is second, and the former tenth id is gone
C18_Witness ==
    /\ clicks >= 1
    /\ Len(ReadRecent) = RecentCap
    /\ ReadRecent[1] = AssetId[12]
    /\ ReadRecent[2] = AssetId[2]
    /\ \A i \in 1..Len(ReadRecent) : ReadRecent[i] # AssetId[11]

(***************************************************************************)
(* The views that select assets: storage hierarchy, asset cards, orphaned  *)
(* assets list                                                             *)
(***************************************************************************)
\* AssetCard.handleSelect on the card of an asset of the page
AssetCardHandleSelect(asset) ==
    /\ mounted
    /\ Includes(filteredAssets, asset)
    /\ selectedAssets' =
          IF asset.id = NoId THEN selectedAssets
          ELSE IF HasId(selectedAssets, asset.id) THEN FilterOutId(selectedAssets, asset.id)
          ELSE AddedTo(selectedAssets,
                       [id |-> asset.id, name |-> asset.name, type |-> asset.type,
                        qualifiedName |-> asset.connection])
    /\ slot' = Persisted(selectedAssets')
    /\ lastOp' = [op |-> "AssetCard.handleSelect", id |-> asset.id]
    /\ UNCHANGED <<mounted, filteredAssets>>
    /\ UNCHANGED <<curateVars, pageVars>>

\* the checkbox of an entry of the orphaned assets list (any asset of the
\* catalog can be in the list)
orphanedOnCheckedChange(asset, checked) ==
    /\ mounted
    /\ Includes(filteredAssets, asset)
    /\ checked = ~HasId(selectedAssets, asset.id)
    /\ selectedAssets' =
          IF checked
          THEN AddedTo(selectedAssets,
                       [id |-> asset.id, name |-> asset.name, type |-> asset.assetType])
          ELSE FilterOutId(selectedAssets, asset.id)
    /\ slot' = Persisted(selectedAssets')
    /\ lastOp' = [op |-> "orphanedOnCheckedChange", id |-> asset.id]
    /\ UNCHANGED <<mounted, filteredAssets>>
    /\ UNCHANGED <<curateVars, pageVars>>

NextViews ==
    \/ \E list \in AssetLists(MaxAssets) : assetsLoaded(list)
    \/ \E i \in 1..Len(Forest) : handleSelect(Forest[i])
    \/ \E asset \in Entities : AssetCardHandleSelect(asset)
    \/ \E asset \in Entities, checked \in BOOLEAN : orphanedOnCheckedChange(asset, checked)

SpecViews == InitHierarchy /\ [][NextViews]_vars

\* C19: every entity of the Selection Set is a leaf: none has a child node
\* in the storage hierarchy.
C19_SelectionHoldsLeavesOnly ==
    \A i \in 1..Len(selectedAssets) : ~HasChildNode(selectedAssets[i].id)

(***************************************************************************)
(* Storage hierarchy: containers and files                                  *)
(***************************************************************************)
\* parent is path with everything from its last '/' removed
IsCutAtLastSlash(path, parent) ==
    \E k \in 1..Len(path) :
        /\ path[k] = "/"
        /\ \A j \in (k + 1)..Len(path) : path[j] # "/"
        /\ parent = SubSeq(path, 1, k - 1)

IsFileOrBlob(asset) == IncludesFile(asset.assetType) \/ asset.assetType = "Azure Blob"

\* the entities of the input list of one kind whose path, cut at its last
\* '/', is the path of parent, in the order of the input list
ExpectedChildren(parent, IsKind(_)) ==
    SelectSeq(StorageInput,
              LAMBDA c : IsKind(c) /\ IsCutAtLastSlash(c.connection, parent.connection))

IsContainer(asset) == asset.assetType = "Azure Blob Container"

Pending(request) == [request |-> request, outcome |-> "pending"]

\* (both handlers called without await: every request of the click is
\* issued at once)
IssuedUnawaited(plan) == [i \in 1..Len(plan) |-> Pending(plan[i].request)]

\* await handleAddOwner(); await handleAddExpert(): at the click the first
\* handler runs up to its fetch
IssuedAtClick(plan) == <<Pending(plan[1].request)>>

\* the handlers of a click that get as far as their fetch, in the order of
\* the onClick, each with the request it makes from the click's closure
\* (the remove handlers return without a request when their confirm
\* dialog is declined)
AddBothPlan ==
    <<[handler |-> "handleAddOwner",
       request |-> AddOwnerRequest(getGuids, "Owner", inputs.selectedOwner)],
      [handler |-> "handleAddExpert",
       request |-> AddOwnerRequest(getGuids, "Expert", inputs.selectedExpert)]>>

RemoveBothPlan(confirmedOwner, confirmedExpert) ==
    (IF confirmedOwner
     THEN <<[handler |-> "handleRemoveOwner",
             request |-> RemoveOwnerRequest(getGuids, "Owner")]>>
     ELSE <<>>)
    \o (IF confirmedExpert
        THEN <<[handler |-> "handleRemoveExpert",
                request |-> RemoveOwnerRequest(getGuids, "Expert")]>>
        ELSE <<>>)

\* the click on a contact button with contactType 'both', up to the first
\* fetch
bothClick(plan) ==
    /\ ~isSubmitting
    /\ Len(selectedAssets) > 0
    /\ IF plan = <<>> THEN
           UNCHANGED <<isSubmitting, write, batch, requests>>
       ELSE
           /\ isSubmitting' = TRUE
           /\ write' = [active |-> TRUE, handler |-> plan[1].handler,
                        request |-> plan[1].request]
           /\ batch' = [status |-> "contacts", plan |-> plan, next |-> 1]
           /\ requests' = IssuedAtClick(plan)
    /\ UNCHANGED <<selectionVars, lastOp, filteredAssets, columnVars, existingTags,
                   tagsFetching, toast, inputs, loading, existingOwners,
                   existingExperts, existingClassifications, catalogVars, pageVars>>

\* the 'Add' button of the contacts tab with contactType 'both'
addBothOnClick ==
    /\ inputs.selectedOwner # "" /\ inputs.selectedExpert # ""
    /\ bothClick(AddBothPlan)

\* the 'Remove All Contacts' button with contactType 'both'
removeBothOnClick(confirmedOwner, confirmedExpert) ==
    /\ Len(existingOwners) > 0 \/ Len(existingExperts) > 0
    /\ bothClick(RemoveBothPlan(confirmedOwner, confirmedExpert))

\* the toast of a contact handler's response
ContactToast(handler, outcome) ==
    IF handler = "handleAddOwner"
    THEN WriteToast(outcome, "Owner Added Successfully", "Error Adding Owner")
    ELSE IF handler = "handleAddExpert"
    THEN WriteToast(outcome, "Expert Added Successfully", "Error Adding Expert")
    ELSE IF handler = "handleRemoveOwner"
    THEN WriteToast(outcome, "Owner Removed Successfully", "Error Removing Owner")
    ELSE WriteToast(outcome, "Expert Removed Successfully", "Error Removing Expert")

\* a handler of the click from its response on, and then the next handler
\* of the click up to its fetch
bothResponse(outcome, handled, failedRemoves) ==
    /\ batch.status = "contacts"
    /\ write.active
    /\ outcome = "ok" => handled
    /\ outcome = "error_response" => ~handled
    /\ ~handled => failedRemoves = {}
    /\ catalogWrites' = IF handled
                        THEN ContactWrites(write.request,
                                           Known(catalog, write.request.guids),
                                           failedRemoves)
                        ELSE <<>>
    /\ catalog' = AfterContactWrites(catalog, catalogWrites')
    /\ toast' = ContactToast(write.handler, outcome)
    /\ inputs' = InputsAfterWrite(write.handler, outcome)
    /\ loading' = IF outcome = "ok" THEN loading \cup {"contacts"} ELSE loading
    /\ LET answered == [requests EXCEPT ![batch.next].outcome = outcome]
       IN IF batch.next < Len(batch.plan) THEN
              /\ requests' = Append(answered, Pending(batch.plan[batch.next + 1].request))
              /\ write' = [active |-> TRUE,
                           handler |-> batch.plan[batch.next + 1].handler,
                           request |-> batch.plan[batch.next + 1].request]
              /\ batch' = [batch EXCEPT !.next = @ + 1]
              /\ isSubmitting' = TRUE
          ELSE
              /\ requests' = answered
              /\ write' = [active |-> FALSE]
              /\ batch' = [batch EXCEPT !.status = "done"]
              /\ isSubmitting' = FALSE
    /\ UNCHANGED <<selectionVars, lastOp, filteredAssets, columnVars, existingTags,
                   tagsFetching, existingOwners, existingExperts,
                   existingClassifications, pageVars>>

\* the Curate view mounted on a selection: its effect has asked for the
\* tags and the contacts
InitBatches ==
    /\ mounted = TRUE
    /\ selectedAssets = CurateSelection
    /\ slot = Persisted(selectedAssets)
    /\ lastOp = NoOp
    /\ filteredAssets = <<>>
    /\ recentAssets = Absent
    /\ recentAssetIds = <<>>
    /\ clicks = 0
    /\ NoLineages
    /\ activeTab \in {"tags", "contacts"}
    /\ schemaData = EmptyRecord
    /\ columnClassifications = EmptyRecord
    /\ showSchemaView = FALSE
    /\ autoClassificationSuggestions = EmptyRecord
    /\ edited = EmptyRecord
    /\ suggested = EmptyRecord
    /\ applying = [active |-> FALSE]
    /\ isSubmitting = FALSE
    /\ existingTags = <<>>
    /\ tagsFetching = TRUE
    /\ batch = [status |-> "idle"]
    /\ requests = <<>>
    /\ toast = [kind |-> "none"]
    /\ inputs = NoInputs
    /\ write = [active |-> FALSE]
    /\ loading = {"contacts"}
    /\ existingOwners = <<>>
    /\ existingExperts = <<>>
    /\ existingClassifications = <<>>
    /\ catalog = NoCatalog
    /\ catalogWrites = <<>>

TagsBatch ==
    /\ activeTab = "tags"
    /\ \E confirmed \in BOOLEAN : handleRemoveAllTags(confirmed)

ContactsBatch ==
    /\ activeTab = "contacts"
    /\ \/ \E value \in Users : setSelectedContact("both", value)
       \/ addBothOnClick
       \/ \E confirmedOwner, confirmedExpert \in BOOLEAN :
             removeBothOnClick(confirmedOwner, confirmedExpert)

NextBatches ==
    \/ TagsBatch
    \/ ContactsBatch
    \/ \E response \in {[ok |-> TRUE, tags |-> l] : l \in TagLists(NumTags)}
                       \cup {Failure} :
          fetchExistingTagsResponse(response)
    \/ \E outcome \in Outcomes : removeTagsResponse(outcome)
    \/ \E response \in ContactsResponses \cup {Failure} :
          fetchExistingContactsResponse(response)
    \/ \E outcome \in Outcomes, handled \in BOOLEAN,
          failedRemoves \in SUBSET {Guid[1], Guid[2]} :
             bothResponse(outcome, handled, failedRemoves)

SpecBatches == InitBatches /\ [][NextBatches]_vars

\* the requests of the batch whose response has not come
InFlight == {i \in 1..Len(requests) : requests[i].outcome = "pending"}

\* C21: of the writes of one batched apply (the remove-all-tags loop, the
\* two handlers of a 'both' contact button) at most one is in flight, it is
\* the one issued last, and the writes issued are the first writes of the
\* batch in the order of the batch.
C21_BatchWritesOneAtATimeInOrder ==
    /\ Cardinality(InFlight) <= 1
    /\ InFlight \subseteq {Len(requests)}
    /\ batch.status \in {"running", "contacts"} => InFlight = {Len(requests)}
    /\ batch.status = "running" =>
          /\ Len(requests) = batch.next
          /\ \A i \in 1..Len(requests) : requests[i].tag = batch.tags[i]
    /\ batch.status = "contacts" =>
          /\ Len(requests) = batch.next
          /\ \A i \in 1..Len(requests) : requests[i].request = batch.plan[i].request

\* the expert request of an add with contactType 'both' is in flight after
\* the owner request has been answered
C21_Witness ==
    /\ batch.status = "contacts"
    /\ Len(requests) = 2
    /\ requests[1].outcome = "ok"
    /\ requests[1].request.endpoint = "add-owner"
    /\ requests[1].request.contactType = "Owner"
    /\ requests[2].outcome = "pending"
    /\ requests[2].request.contactType = "Expert"

(***************************************************************************)
(* Column classifications: clearing a key                                  *)
(***************************************************************************)
\* C22: clearing the value of a column key removes the key's edit and
\* suggestion from the pending map, so that an apply (which sends the map)
\* sends nothing for the key.
C22_ClearRemovesThePendingKey ==
    [][\A column \in Columns :
          onValueChange(column, "") => column \notin DOMAIN columnClassifications'
      ]_vars

(***************************************************************************)
(* Refresh of the catalog data                                             *)
(***************************************************************************)
\* the list without its i-th entity (0: the whole list)
Dropping(list, i) == SelectSeq(list, LAMBDA e : i = 0 \/ e # list[i])

\* (a refresh that prunes the selection to the entities still delivered)
refreshDataPruning(list) ==
    /\ filteredAssets # <<>>
    /\ filteredAssets' = list
    /\ selectedAssets' = SelectSeq(selectedAssets, LAMBDA a : HasId(list, a.id))
    /\ slot' = Persisted(selectedAssets')
    /\ lastOp' = [op |-> "refreshData"]
    /\ UNCHANGED mounted
    /\ UNCHANGED <<curateVars, pageVars>>

\* useRefreshPurviewData: the mutation succeeds, the queries are
\* invalidated and usePurviewAssets delivers the assets anew
refreshData(list) ==
    /\ filteredAssets # <<>>
    /\ filteredAssets' = list
    /\ lastOp' = [op |-> "refreshData"]
    /\ UNCHANGED <<selectedAssets, slot, mounted>>
    /\ UNCHANGED <<curateVars, pageVars>>

\* the lists the first load delivers here
LoadedLists ==
    {<<Catalog[1], Catalog[2], Catalog[6]>>, <<Catalog[3], Catalog[5], Catalog[4]>>}

\* the views that select, the Selected Assets panel (remove, clear all)
\* and the refresh, which delivers the same list or one entity less (at
\* least one entity is left)
NextRefresh ==
    \/ \E list \in LoadedLists : assetsLoaded(list)
    \/ \E i \in 1..Len(Forest) : handleSelect(Forest[i])
    \/ \E asset \in Entities : AssetCardHandleSelect(asset)
    \/ \E asset \in Entities, checked \in BOOLEAN : orphanedOnCheckedChange(asset, checked)
    \/ \E i \in 1..Len(selectedAssets) : removeAsset(selectedAssets[i].id)
    \/ clearAll
    \/ \E i \in 0..Len(filteredAssets) :
          /\ Dropping(filteredAssets, i) # <<>>
          /\ refreshData(Dropping(filteredAssets, i))

SpecRefresh == InitHierarchy /\ [][NextRefresh]_vars

SelectionOps == {"handleSelect", "AssetCard.handleSelect", "orphanedOnCheckedChange",
                 "addAsset", "removeAsset", "clearAll"}

\* C23: a refresh of the catalog data leaves the Selection Set and its slot
\* unchanged, also when a selected entity is no longer delivered; the
\* Selection Set and the slot change only in steps of the views' select,
\* remove and clear operations, and an entry leaves the Selection Set only
\* by a clear or by the remove of its own id.
C23_SelectionChangesOnlyByAddRemoveClear ==
    [][/\ lastOp'.op = "refreshData" => UNCHANGED <<selectedAssets, slot>>
       /\ (selectedAssets' # selectedAssets \/ slot' # slot) =>
             lastOp'.op \in SelectionOps
       /\ \A i \in 1..Len(selectedAssets) :
             ~HasId(selectedAssets', selectedAssets[i].id) =>
                \/ lastOp'.op = "clearAll"
                \/ /\ lastOp'.op \in SelectionOps \ {"addAsset", "clearAll"}
                   /\ lastOp'.id = selectedAssets[i].id
      ]_vars

\* a refresh has delivered a list without an entity that is selected
C23_Witness ==
    /\ lastOp.op = "refreshData"
    /\ \E i \in 1..Len(selectedAssets) : ~HasId(filteredAssets, selectedAssets[i].id)
    /\ slot = Persisted(selectedAssets)

(***************************************************************************)
(* Normalization of the raw catalog records                                *)
(***************************************************************************)
\* the JSON values a raw field can hold
Missing == [t |-> "undefined"]
Null == [t |-> "null"]
Str(s) == [t |-> "string", v |-> s]
Num(n) == [t |-> "number", v |-> n]
Arr(members) == [t |-> "array", v |-> members]

\* JavaScript truthiness: undefined, null, '' and 0 are falsy
Truthy(x) ==
    CASE x.t \in {"undefined", "null"} -> FALSE
      [] x.t = "string" -> x.v # ""
      [] x.t = "number" -> x.v # 0
      [] OTHER -> TRUE

\* data.filter(t => t && typeof t === 'string')
RECURSIVE FilterStrings(_)
FilterStrings(members) ==
    IF members = <<>> THEN <<>>
    ELSE (IF Truthy(Head(members)) /\ Head(members).t = "string"
          THEN <<Head(members).v>> ELSE <<>>)
         \o FilterStrings(Tail(members))

parseArray(data) ==
    IF ~Truthy(data) THEN <<>>
    ELSE IF data.t = "array" THEN FilterStrings(data.v)
    ELSE IF data.t = "string" THEN <<data.v>>
    ELSE <<>>

\* allAssets: one object per raw record, none left out
allAssets(assets) ==
    [i \in 1..Len(assets) |->
        [id |-> assets[i].id, name |-> "n",
         type |-> GetAssetType(assets[i].assetType),
         assetType |-> assets[i].assetType,
         connection |-> assets[i].qualifiedName,
         tags |-> parseArray(assets[i].tag),
         classifications |-> parseArray(assets[i].classification)]]

\* the raw tag fields met: absent, null, a string, the empty string, a
\* number, and lists with strings, a repeated string and non-strings
RawFields ==
    {Missing, Null, Str("A"), Str(""), Num(7), Arr(<<>>),
     Arr(<<Str("A"), Num(7), Str("B")>>), Arr(<<Str("A"), Str("A")>>),
     Arr(<<Null, Str("")>>)}

RawClassifications == {Missing, Arr(<<Str("PII"), Null>>)}

\* an account, a blob storage under it and a table; the latter two also as
\* records delivered without an id
RawKinds ==
    {<<Guid[1], "Azure Storage Account", <<"a">> \o AccountDomain>>,
     <<Guid[2], "Azure Blob Storage", <<"a">> \o BlobDomain>>,
     <<NoId, "Azure Blob Storage", <<"a">> \o BlobDomain>>,
     <<Guid[6], "Table", <<"db", "/", "t">>>>,
     <<NoId, "Table", <<"db", "/", "t">>>>}

RawRecords ==
    {[id |-> k[1], assetType |-> k[2], qualifiedName |-> k[3],
      tag |-> tag, classification |-> classification] :
        k \in RawKinds, tag \in RawFields, classification \in RawClassifications}

RawLists == {<<r>> : r \in RawRecords} \cup {<<r, s>> : r, s \in RawRecords}

\* usePurviewAssets delivers the raw records; the views hold their
\* normalized list (the search box is empty)
assetsDelivered(assets) ==
    /\ filteredAssets = <<>>
    /\ filteredAssets' = allAssets(assets)
    /\ lastOp' = [op |-> "assetsLoaded"]
    /\ UNCHANGED <<selectedAssets, slot, mounted>>
    /\ UNCHANGED <<curateVars, pageVars>>

NextNormalize ==
    \/ \E assets \in RawLists : assetsDelivered(assets)
    \/ \E i \in 1..Len(Forest) : handleSelect(Forest[i])
    \/ \E i \in 1..Len(filteredAssets) : AssetCardHandleSelect(filteredAssets[i])

SpecNormalize == InitHierarchy /\ [][NextNormalize]_vars

\* C24: a raw record that has no identifier is dropped: no entity of the
\* normalized list, no member of a bucket, no node of the storage hierarchy
\* and no entry of the Selection Set is without an id.
C24_RecordWithoutIdIsDropped ==
    /\ \A i \in 1..Len(filteredAssets) : filteredAssets[i].id # NoId
    /\ \A i \in 1..Len(filteredAssets) :
          \A j \in 1..Len(AssetsByType(filteredAssets, filteredAssets[i].assetType)) :
              AssetsByType(filteredAssets, filteredAssets[i].assetType)[j].id # NoId
    /\ \A i \in 1..Len(Forest) : Forest[i].asset.id # NoId
    /\ \A i \in 1..Len(selectedAssets) : selectedAssets[i].id # NoId

\* the strings of a raw field: the field itself when it is a string, its
\* string members when it is a list, none otherwise
StringsOf(data) ==
    CASE data.t = "string" -> {data.v}
      [] data.t = "array" ->
            {data.v[j].v : j \in {k \in 1..Len(data.v) : data.v[k].t = "string"}}
      [] OTHER -> {}

IsSetOfStringsOf(result, data) ==
    /\ {result[j] : j \in 1..Len(result)} = StringsOf(data)
    /\ \A j, k \in 1..Len(result) : j # k => result[j] # result[k]

\* C25: the tags and the classifications of a normalized entity are the set
\* of the strings of the raw field: none for an absent field, the string for
\* a single string, the string members for a list, no string twice.
C25_RawFieldNormalizesToSetOfStrings ==
    [][filteredAssets = <<>> =>
          \A assets \in RawLists :
              assetsDelivered(assets) =>
                  \A i \in 1..Len(assets) :
                      /\ IsSetOfStringsOf(filteredAssets'[i].tags, assets[i].tag)
                      /\ IsSetOfStringsOf(filteredAssets'[i].classifications,
                                          assets[i].classification)
      ]_vars

(***************************************************************************)
(* Browse by asset type: the flat buckets                                  *)
(***************************************************************************)
MaxBucketAssets == 4

\* assets of kinds with several members each, and one storage account
TypedCatalog == <<
    Normalized(Guid[1], "Table", <<"db", "/", "t1">>),
    Normalized(Guid[2], "View", <<"db", "/", "v1">>),
    Normalized(Guid[3], "Table", <<"db", "/", "t2">>),
    Normalized(Guid[4], "Database", <<"db">>),
    Normalized(Guid[5], "View", <<"db", "/", "v2">>),
    Normalized(Guid[6], "Azure Storage Account", <<"a">> \o AccountDomain),
    Normalized(Guid[7], "Database", <<"db2">>),
    Normalized(Guid[8], "Table", <<"db", "/", "t3">>) >>

TypedEntities == {TypedCatalog[i] : i \in 1..NumEntities}

RECURSIVE ListsOver(_, _)
ListsOver(entities, n) ==
    IF n = 0 THEN {<<>>}
    ELSE LET shorter == ListsOver(entities, n - 1)
         IN shorter \cup
            UNION {{Append(s, e) : e \in {x \in entities : ~HasId(s, x.id)}} :
                     s \in {t \in shorter : Len(t) = n - 1}}

\* Object.entries(assetsByType): one [type, assets] pair per type, in the
\* order in which the types were first put into the object
Entries(list) ==
    [i \in 1..Len(TypesInOrder(list)) |->
        [type |-> TypesInOrder(list)[i],
         assets |-> AssetsByType(list, TypesInOrder(list)[i])]]

\* (an insertion that puts an entry before the entries of equal count)
InsertedBeforeTies(sorted, entry) ==
    LET before == SelectSeq(sorted, LAMBDA e : Len(e.assets) > Len(entry.assets))
        after == SelectSeq(sorted, LAMBDA e : ~(Len(e.assets) > Len(entry.assets)))
    IN before \o <<entry>> \o after

\* the place of an entry under the comparator b.length - a.length:
\* Array.prototype.sort is stable, an entry stays behind the earlier
\* entries of the same length
InsertedByCount(sorted, entry) ==
    LET before == SelectSeq(sorted, LAMBDA e : Len(e.assets) >= Len(entry.assets))
        after == SelectSeq(sorted, LAMBDA e : ~(Len(e.assets) >= Len(entry.assets)))
    IN before \o <<entry>> \o after

RECURSIVE SortedByCount(_)
SortedByCount(entries) ==
    IF entries = <<>> THEN <<>>
    ELSE InsertedByCount(SortedByCount(SubSeq(entries, 1, Len(entries) - 1)),
                         entries[Len(entries)])

sortedTypes == SortedByCount(Entries(filteredAssets))

\* sortedTypes.map: the storage types are shown in the hierarchy (or
\* skipped), every other type as a card of its own
FlatBuckets == SelectSeq(sortedTypes, LAMBDA e : ~IsStorageType(e.type))

InitBuckets == InitHierarchy

NextBuckets ==
    \/ \E list \in ListsOver(TypedEntities, MaxBucketAssets) : assetsLoaded(list)
    \/ \E i \in 1..Len(Forest) : handleSelect(Forest[i])

SpecBuckets == InitBuckets /\ [][NextBuckets]_vars

FirstOccurrence(type) ==
    CHOOSE i \in 1..Len(filteredAssets) :
        /\ filteredAssets[i].assetType = type
        /\ \A j \in 1..(i - 1) : filteredAssets[j].assetType # type

\* C26: every entity of a non-storage kind is in exactly one bucket, the
\* bucket of its declared kind, and there is one bucket per kind; a bucket
\* listed before another has at least as many members, and of two buckets
\* with equally many members the one whose kind occurs first in the input
\* is listed first.
C26_BucketsPerKindByDescendingCount ==
    /\ \A i \in 1..Len(filteredAssets) :
          ~IsStorageType(filteredAssets[i].assetType) =>
              \E b \in 1..Len(FlatBuckets) :
                  /\ FlatBuckets[b].type = filteredAssets[i].assetType
                  /\ \A c \in 1..Len(FlatBuckets) :
                        Cardinality({j \in 1..Len(FlatBuckets[c].assets) :
                                        FlatBuckets[c].assets[j] = filteredAssets[i]})
                          = (IF c = b THEN 1 ELSE 0)
    /\ \A b, c \in 1..Len(FlatBuckets) :
          b < c =>
              /\ FlatBuckets[b].type # FlatBuckets[c].type
              /\ Len(FlatBuckets[b].assets) >= Len(FlatBuckets[c].assets)
              /\ Len(FlatBuckets[b].assets) = Len(FlatBuckets[c].assets) =>
                    FirstOccurrence(FlatBuckets[b].type) < FirstOccurrence(FlatBuckets[c].type)

\* three buckets are listed: two with equally many members, and a larger
\* one that is listed before a bucket whose kind occurs earlier in the input
C26_Witness ==
    /\ Len(FlatBuckets) >= 3
    /\ \E b, c \in 1..Len(FlatBuckets) :
          /\ b < c
          /\ Len(FlatBuckets[b].assets) = Len(FlatBuckets[c].assets)
    /\ \E b, c \in 1..Len(FlatBuckets) :
          /\ b < c
          /\ Len(FlatBuckets[b].assets) > Len(FlatBuckets[c].assets)
          /\ FirstOccurrence(FlatBuckets[b].type) > FirstOccurrence(FlatBuckets[c].type)

(***************************************************************************)
(* Curate view: baseline fetches of a changing selection                   *)
(***************************************************************************)
\* a baseline fetch as it is sent: getGuids() is read when it starts
Fetch(endpoint, guids) == [endpoint |-> endpoint, guids |-> guids]

\* the catalog behind the back end: every entity with a tag, an owner and
\* classifications of its own
BaselineCatalog ==
    [tags |-> [g \in {Guid[1], Guid[2]} |-> IF g = Guid[1] THEN {"A"} ELSE {"B"}],
     owner |-> [g \in {Guid[1], Guid[2]} |-> IF g = Guid[1] THEN "u0" ELSE "u1"],
     expert |-> [g \in {Guid[1], Guid[2]} |-> "u0"]]

CatalogClassifications(g) == IF g = Guid[1] THEN <<"PII">> ELSE <<"PII", "EMAIL">>

\* the back end's answers for the entities of a request
TagsOf(cat, guids) ==
    ArrayFromSet([i \in 1..Len(guids) |-> CHOOSE t \in cat.tags[guids[i]] : TRUE])

OwnersOf(cat, guids) == ArrayFromSet([i \in 1..Len(guids) |-> cat.owner[guids[i]]])

ExpertsOf(cat, guids) == ArrayFromSet([i \in 1..Len(guids) |-> cat.expert[guids[i]]])

ClassificationsOf(guids) == [i \in 1..Len(guids) |-> CatalogClassifications(guids[i])]

\* useEffect([selectedAssets]) after a change of the selection: the three
\* fetches are sent for the new selection whatever is still in flight, or
\* the baselines are emptied
baselineEffect(selection) ==
    LET guids == [i \in 1..Len(selection) |-> selection[i].id]
    IN IF Len(selection) > 0 THEN
           /\ requests' = requests \o <<Fetch("get-tags", guids),
                                        Fetch("get-contacts", guids),
                                        Fetch("get-classifications", guids)>>
           /\ tagsFetching' = TRUE
           /\ loading' = {"contacts", "classifications"}
           /\ UNCHANGED <<existingTags, existingOwners, existingExperts,
                          existingClassifications>>
       ELSE
           /\ existingTags' = <<>>
           /\ existingOwners' = <<>>
           /\ existingExperts' = <<>>
           /\ existingClassifications' = <<>>
           /\ UNCHANGED <<requests, tagsFetching, loading>>

selectionBecomes(selection) ==
    /\ mounted
    /\ clicks < MaxClicks
    /\ clicks' = clicks + 1
    /\ selectedAssets' = selection
    /\ slot' = Persisted(selection)
    /\ baselineEffect(selection)
    /\ UNCHANGED <<mounted, lastOp, filteredAssets, columnVars, isSubmitting, batch,
                   toast, inputs, write, catalogVars, recentAssets, recentAssetIds,
                   activeTab, lineageVars>>

\* the checkbox of an orphaned asset, the X of an entry of the Selected
\* Assets card and its 'Clear All' button, each followed by the effect
checkedWithEffect(asset) ==
    /\ ~HasId(selectedAssets, asset.id)
    /\ selectionBecomes(AddedTo(selectedAssets, asset))

removedWithEffect(id) ==
    /\ HasId(selectedAssets, id)
    /\ selectionBecomes(FilterOutId(selectedAssets, id))

clearedWithEffect ==
    /\ Len(selectedAssets) > 0
    /\ selectionBecomes(<<>>)

\* fetchExistingTags, fetchExistingContacts and fetchExistingClassifications
\* from the response on: what it answers for the entities it was sent for
\* is stored when it is a success; its loading flag ends
baselineResponse(i, ok) ==
    LET fetch == requests[i]
    IN /\ requests' = [j \in 1..(Len(requests) - 1) |->
                          IF j < i THEN requests[j] ELSE requests[j + 1]]
       /\ existingTags' = IF ok /\ fetch.endpoint = "get-tags"
                          THEN TagsOf(catalog, fetch.guids) ELSE existingTags
       /\ existingOwners' = IF ok /\ fetch.endpoint = "get-contacts"
                            THEN OwnersOf(catalog, fetch.guids) ELSE existingOwners
       /\ existingExperts' = IF ok /\ fetch.endpoint = "get-contacts"
                             THEN ExpertsOf(catalog, fetch.guids) ELSE existingExperts
       /\ existingClassifications' =
             IF ok /\ fetch.endpoint = "get-classifications"
             THEN Flattened(ClassificationsOf(fetch.guids)) ELSE existingClassifications
       /\ tagsFetching' = (tagsFetching /\ fetch.endpoint # "get-tags")
       /\ loading' = loading \ (IF fetch.endpoint = "get-contacts" THEN {"contacts"}
                                ELSE IF fetch.endpoint = "get-classifications"
                                THEN {"classifications"} ELSE {})
       /\ UNCHANGED <<selectionVars, lastOp, filteredAssets, columnVars, isSubmitting,
                      batch, toast, inputs, write, catalogVars, pageVars>>

\* the Curate view mounted with nothing selected
InitBaseline ==
    /\ mounted = TRUE
    /\ selectedAssets = <<>>
    /\ slot = Persisted(<<>>)
    /\ lastOp = NoOp
    /\ filteredAssets = <<>>
    /\ recentAssets = Absent
    /\ recentAssetIds = <<>>
    /\ clicks = 0
    /\ NoLineages
    /\ activeTab = "tags"
    /\ InitForm
    /\ catalog = BaselineCatalog
    /\ catalogWrites = <<>>
    /\ schemaData = EmptyRecord
    /\ columnClassifications = EmptyRecord
    /\ showSchemaView = FALSE
    /\ autoClassificationSuggestions = EmptyRecord
    /\ edited = EmptyRecord
    /\ suggested = EmptyRecord
    /\ applying = [active |-> FALSE]
    /\ isSubmitting = FALSE
    /\ existingTags = <<>>
    /\ tagsFetching = FALSE
    /\ batch = [status |-> "idle"]
    /\ requests = <<>>
    /\ toast = [kind |-> "none"]

NextBaseline ==
    \/ \E g \in {Guid[1], Guid[2]} :
          checkedWithEffect([id |-> g, name |-> "n", type |-> "table"])
    \/ \E i \in 1..Len(selectedAssets) : removedWithEffect(selectedAssets[i].id)
    \/ clearedWithEffect
    \/ \E i \in 1..Len(requests), ok \in BOOLEAN : baselineResponse(i, ok)

SpecBaseline == InitBaseline /\ [][NextBaseline]_vars

\* C27: whenever no baseline fetch is in flight, the tags, contacts and
\* classifications the Curate view holds are what the back end answers for
\* the ids of the current selection, and are empty when nothing is selected.
C27_BaselinesAreTheAnswerForTheSelection ==
    requests = <<>> =>
        IF Len(selectedAssets) = 0 THEN
            /\ existingTags = <<>>
            /\ existingOwners = <<>>
            /\ existingExperts = <<>>
            /\ existingClassifications = <<>>
        ELSE
            /\ existingTags = TagsOf(catalog, getGuids)
            /\ existingOwners = OwnersOf(catalog, getGuids)
            /\ existingExperts = ExpertsOf(catalog, getGuids)
            /\ existingClassifications = Flattened(ClassificationsOf(getGuids))

(***************************************************************************)
(* Curate view: the badge of an existing contact during a write            *)
(***************************************************************************)
\* the onClick of an existing contact's badge while the request of another
\* write handler is in flight: the badges are rendered whenever contacts
\* are loaded, isSubmitting is read neither by the badge nor by
\* handleRemoveSpecificOwner / handleRemoveSpecificExpert (one such further
\* write at a time is modelled, in requests)
badgeOnClick(contactType, existing, confirmed) ==
    /\ write.active
    /\ requests = <<>>
    /\ "contacts" \notin loading
    /\ Len(existing) > 0
    /\ IF Len(selectedAssets) = 0 \/ ~confirmed THEN
           UNCHANGED <<isSubmitting, requests>>
       ELSE
           /\ isSubmitting' = TRUE
           /\ requests' = <<Pending(RemoveOwnerRequest(getGuids, contactType))>>
    /\ UNCHANGED <<selectionVars, lastOp, filteredAssets, columnVars, existingTags,
                   tagsFetching, batch, toast, formVars, catalogVars, pageVars>>

\* handleRemoveSpecificOwner / handleRemoveSpecificExpert of such a click
\* from the response on (taken after the response of the earlier write)
badgeResponse(outcome, handled, failedRemoves) ==
    /\ ~write.active
    /\ requests # <<>>
    /\ outcome = "ok" => handled
    /\ outcome = "error_response" => ~handled
    /\ ~handled => failedRemoves = {}
    /\ catalogWrites' = IF handled
                        THEN ContactWrites(requests[1].request,
                                           Known(catalog, requests[1].request.guids),
                                           failedRemoves)
                        ELSE <<>>
    /\ catalog' = AfterContactWrites(catalog, catalogWrites')
    /\ toast' = IF requests[1].request.contactType = "Owner"
                THEN WriteToast(outcome, "Owner Removed Successfully", "Error Removing Owner")
                ELSE WriteToast(outcome, "Expert Removed Successfully",
                                "Error Removing Expert")
    /\ loading' = IF outcome = "ok" THEN loading \cup {"contacts"} ELSE loading
    /\ isSubmitting' = FALSE
    /\ requests' = <<>>
    /\ UNCHANGED <<selectionVars, lastOp, filteredAssets, columnVars, existingTags,
                   tagsFetching, batch, inputs, write, existingOwners, existingExperts,
                   existingClassifications, pageVars>>

\* the Curate view on its contacts tab, every selected entity with an owner
\* and an expert
InitWrites ==
    /\ InitOwner
    /\ \A g \in DOMAIN catalog.owner : catalog.owner[g] = "u0" /\ catalog.expert[g] = "u0"

NextWrites ==
    \/ NextOwner
    \/ \E confirmed \in BOOLEAN : badgeOnClick("Owner", existingOwners, confirmed)
    \/ \E confirmed \in BOOLEAN : badgeOnClick("Expert", existingExperts, confirmed)
    \/ \E outcome \in Outcomes, handled \in BOOLEAN,
          failedRemoves \in SUBSET {Guid[1], Guid[2]} :
             badgeResponse(outcome, handled, failedRemoves)

SpecWrites == InitWrites /\ [][NextWrites]_vars

\* a step that sends the request of a write handler
WriteStarts ==
    \/ write'.active /\ write' # write
    \/ Len(requests') > Len(requests)

ColumnEntity(column) == IF column = "c1" THEN Guid[1] ELSE Guid[2]

\* C29: every column key that applyColumnClassifications sends is a column
\* of an entity that is in the Selection Set when it is called.
C29_AppliedColumnsBelongToSelectedEntities ==
    [][~applying.active /\ applying'.active =>
          \A column \in DOMAIN applying'.body :
              HasId(selectedAssets, ColumnEntity(column))
      ]_vars

(***************************************************************************)
(* Curate view: the created lineages and their ticks                       *)
(***************************************************************************)
MaxProcesses == 3

\* the process_guid of the n-th process the back end creates
ProcessGuid == <<"p1", "p2", "p3", "p4", "p5">>

\* newLineages: an entry per successful result, in the order of the results
NewLineages(n) == [i \in 1..n |-> [process_guid |-> ProcessGuid[processes + i]]]

\* setCreatedLineages((prev) => [...newLineages, ...prev])
PutInFront(prev, newLineages) == newLineages \o prev

\* list.filter((_, idx) => keep(idx)), the indices counted from 0
RECURSIVE FilterByIndex(_, _, _)
FilterByIndex(list, indices, kept) ==
    IF list = <<>> THEN <<>>
    ELSE LET front == FilterByIndex(SubSeq(list, 1, Len(list) - 1), indices, kept)
         IN IF ((Len(list) - 1) \in indices) = kept
            THEN Append(front, list[Len(list)]) ELSE front

\* handleCreateLineage up to its request (the button is disabled while
\* isCreatingLineage; some mapping is selected)
handleCreateLineage ==
    /\ ~isCreatingLineage
    /\ processes < MaxProcesses
    /\ isCreatingLineage' = TRUE
    /\ UNCHANGED <<createdLineages, selectedLineageIndices, deleting, processes>>
    /\ UNCHANGED <<selectionVars, lastOp, filteredAssets, curateVars, recentAssets,
                   recentAssetIds, clicks, activeTab>>

\* handleCreateLineage from the response on: n of the results are successes
createLineageResponse(ok, n) ==
    /\ isCreatingLineage
    /\ isCreatingLineage' = FALSE
    /\ IF ok /\ n > 0 THEN
           /\ createdLineages' = PutInFront(createdLineages, NewLineages(n))
           /\ processes' = processes + n
       ELSE
           UNCHANGED <<createdLineages, processes>>
    /\ UNCHANGED <<selectedLineageIndices, deleting>>
    /\ UNCHANGED <<selectionVars, lastOp, filteredAssets, curateVars, recentAssets,
                   recentAssetIds, clicks, activeTab>>

\* the checkbox of a created lineage
lineageOnCheckedChange(idx, checked) ==
    /\ checked = (idx \notin selectedLineageIndices)
    /\ selectedLineageIndices' = IF checked THEN selectedLineageIndices \cup {idx}
                                 ELSE selectedLineageIndices \ {idx}
    /\ UNCHANGED <<createdLineages, isCreatingLineage, deleting, processes>>
    /\ UNCHANGED <<selectionVars, lastOp, filteredAssets, curateVars, recentAssets,
                   recentAssetIds, clicks, activeTab>>

\* handleDeleteSelectedLineages up to its request (the button is disabled
\* when nothing is ticked; one call at a time is modelled)
handleDeleteSelectedLineages(confirmed) ==
    LET selectedLineages == FilterByIndex(createdLineages, selectedLineageIndices, TRUE)
    IN /\ ~deleting.active
       /\ selectedLineageIndices # {}
       /\ IF selectedLineages = <<>> \/ ~confirmed THEN
              UNCHANGED deleting
          ELSE
              deleting' = [active |-> TRUE,
                           indices |-> selectedLineageIndices,
                           request |-> [lineage_mappings |-> selectedLineages]]
       /\ UNCHANGED <<createdLineages, selectedLineageIndices, isCreatingLineage,
                      processes>>
       /\ UNCHANGED <<selectionVars, lastOp, filteredAssets, curateVars, recentAssets,
                      recentAssetIds, clicks, activeTab>>

\* handleDeleteSelectedLineages from the response on: the entries at the
\* indices the call started with are filtered out of the list as it is now
deleteLineageResponse(ok) ==
    /\ deleting.active
    /\ deleting' = [active |-> FALSE]
    /\ IF ok THEN
           /\ createdLineages' = FilterByIndex(createdLineages, deleting.indices, FALSE)
           /\ selectedLineageIndices' = {}
       ELSE
           UNCHANGED <<createdLineages, selectedLineageIndices>>
    /\ UNCHANGED <<isCreatingLineage, processes>>
    /\ UNCHANGED <<selectionVars, lastOp, filteredAssets, curateVars, recentAssets,
                   recentAssetIds, clicks, activeTab>>

InitLineage == InitHierarchy

NextLineage ==
    \/ handleCreateLineage
    \/ \E ok \in BOOLEAN, n \in 0..2 :
          processes + n <= MaxProcesses /\ createLineageResponse(ok, n)
    \/ \E idx \in 0..(Len(createdLineages) - 1), checked \in BOOLEAN :
          lineageOnCheckedChange(idx, checked)
    \/ \E confirmed \in BOOLEAN : handleDeleteSelectedLineages(confirmed)
    \/ \E ok \in BOOLEAN : deleteLineageResponse(ok)

SpecLineage == InitLineage /\ [][NextLineage]_vars

\* the entries the ticked indices denote
TickedLineages ==
    {createdLineages[idx + 1] :
        idx \in selectedLineageIndices \cap (0..(Len(createdLineages) - 1))}

Range(list) == {list[i] : i \in 1..Len(list)}

\* C30: the ticks denote the entries the user ticked whatever is created
\* meanwhile; the delete request carries exactly the ticked entries; a
\* successful delete removes exactly the entries of its request and a
\* failed one leaves the list and the ticks as they are.
C30_TicksDenoteTheTickedEntries ==
    [][/\ \A ok \in BOOLEAN, n \in 0..2 :
             createLineageResponse(ok, n) => TickedLineages' = TickedLineages
       /\ handleDeleteSelectedLineages(TRUE) /\ deleting'.active =>
             Range(deleting'.request.lineage_mappings) = TickedLineages
       /\ deleteLineageResponse(TRUE) =>
             /\ Range(createdLineages') =
                   Range(createdLineages) \ Range(deleting.request.lineage_mappings)
             /\ selectedLineageIndices' = {}
       /\ deleteLineageResponse(FALSE) =>
             UNCHANGED <<createdLineages, selectedLineageIndices>>
      ]_vars

====
